---- MODULE Spec2Model ----
(***************************************************************************)
(* ReduceMe: the dispatch engine of src/src/store.ts and src/src/slice.ts. *)
(* One store is modelled together with the synchronous call stack that a   *)
(* dispatch builds: middleware stage handlers, base-dispatch, the root     *)
(* reducer of combineReducers, slice handlers that call back into the      *)
(* store, and listener notification.  A JavaScript exception in flight is  *)
(* the variable exc; it unwinds the stack frame by frame, running the      *)
(* finally block of base-dispatch and the catch blocks of user code.       *)
(* Spec is the store under every operation of the application.             *)
(* SnapshotSpec is the store of an application that keeps the results of   *)
(* state() and the actions it dispatched, to compare them afterwards.      *)
(* SliceSpec is one direct call of a slice reducer.  TwoSpec is an         *)
(* application with two stores.  UtilSpec is one call of an action         *)
(* creator, of an isActionOf guard or of a composed function.              *)
(* BuildSpec is Spec with the constructor's composition of the pipeline    *)
(* as its first step.  RegistrySpec is a store whose application keeps     *)
(* every unregister capability; ListenerSpec is a store with listeners     *)
(* that throw or dispatch; PassSpec gives the same calls to a store with   *)
(* pass-through stages and to a store without middleware.                  *)
(***************************************************************************)
EXTENDS Integers, Sequences, FiniteSets, TLC

\* ------------------------------------------------------------------ bounds
MaxDispatch == 2      \* top-level dispatch calls made by the application
NumListeners == 2     \* distinct listener callbacks the application owns
ExtraDepth == 2       \* call-stack frames available beyond one nested dispatch
MaxFuncs == 3         \* functions given to one call of compose
MaxArg == 3           \* largest number a composed function is applied to
MaxCalls == 4         \* registerListener and capability calls of one application
MaxReads == 2         \* state() results the application keeps for later comparison

\* ------------------------------------------------------- program constants
\* Object.keys(reducers), in insertion order (tests/store.test.ts).
SliceKeys == <<"counter", "test">>

KeySet == {SliceKeys[n] : n \in 1..Len(SliceKeys)}

\* Payloads the application passes to incrementByAmount.
Payloads == {0, 2}

\* A creator called without an argument yields payload undefined, modelled as 0.
Action(t, p) == [type |-> t, payload |-> p]

\* The actions the application dispatches.
Actions ==
    {Action(t, 0) : t \in {"counter/increment", "counter/bump",
                                   "counter/reenter", "counter/tryReenter",
                                   "counter/readState", "counter/fail",
                                   "INCREMENT", "UNKNOWN"}}
    \cup {Action("counter/incrementByAmount", p) : p \in Payloads}

\* README errorMiddleware: store.dispatch({ type: 'ERROR', payload: err }).
ErrorAction == Action("ERROR", 0)

\* The action a re-entering handler dispatches: counterSlice.actions.increment().
InnerAction == Action("counter/increment", 0)

\* Middleware stages: the logger of tests/store.test.ts ("logger"), the logging
\* middleware of docs/middleware.md ("before"), the errorMiddleware of the
\* README ("error"), and a stage that does not pass the action along
\* (docs/middleware.md, section 5) for actions of type StoppedType ("stop"),
\* and a stage that dispatches a new action through store.dispatch before it
\* passes an action of type SpawnType along (docs/middleware.md, lines 121 and
\* 135) ("spawn"); the modifyActionMiddleware of tests/store.test.ts, which
\* passes a copy of the action with its type replaced along ("modify"); and
\* the timingMiddleware ("timing") and the rethrowing errorMiddleware
\* ("guard") of docs/middleware.md, lines 334 to 359; and the thunkMiddleware
\* of docs/middleware.md, which for an action object does nothing but
\* return next(action) ("pass").
MiddlewareKinds ==
    {"logger", "before", "error", "stop", "spawn", "modify", "timing", "guard", "pass"}

StoppedType == "counter/increment"

SpawnType == "INCREMENT"

\* modifyActionMiddleware: { ...action, type: "INCREMENT" }.
Rewritten(act) == [act EXCEPT !.type = "INCREMENT"]

\* The middleware lists a store is created with.
MiddlewareLists ==
    {<<>>, <<"logger">>, <<"before">>, <<"error">>, <<"stop">>,
     <<"logger", "logger">>, <<"logger", "before">>, <<"error", "logger">>,
     <<"logger", "error">>, <<"logger", "stop">>, <<"stop", "logger">>,
     <<"logger", "before", "error">>, <<"logger", "spawn">>, <<"modify">>,
     <<"guard", "timing", "logger">>}

\* The JavaScript call stack is finite: a call made at this depth raises
\* RangeError (maximum call stack size exceeded).  A dispatch nested in a
\* handler needs two passes through the longest pipeline and three more frames.
MaxDepth == 2 * 3 + 3 + ExtraDepth

ListenerIds == 1..NumListeners

\* Error values.
NoError == "none"
ReentrancyError == "Reducers may not dispatch actions."
StateError == "Cannot call when dispatching"
HandlerError == "handler error"
ListenerError == "listener error"
RangeError == "RangeError"

VARIABLES
    state,          \* Store._state: [ref, subs], subs maps each key to [ref, val]
    isDispatching,  \* Store._isDispatching
    listeners,      \* Store._listeners, in insertion order
    mws,            \* the middleware list the store was created with
    caps,           \* listeners for which an unregister capability exists
    stack,          \* the call stack, innermost frame last
    exc,            \* the exception in flight, or the one the last call raised
    ret,            \* the value the root reducer returned to base-dispatch
    nextRef,        \* object identities allocated so far
    ndisp,          \* top-level dispatch calls made so far
    log,            \* what user code and the store did during the current call
    active,         \* listeners registered and not unregistered since (history)
    held,           \* the state() results the application has kept, oldest first
    hist,           \* the actions the application has dispatched (history)
    call,           \* a direct call of a library function and what it returned
    stores,         \* the fields of each store when the application creates two
    util,           \* a call of an action utility or of compose and its result
    built           \* what the store's constructor did, when it is modelled

vars == <<state, isDispatching, listeners, mws, caps, stack, exc, ret, nextRef, ndisp, log, active,
          held, hist, call, stores, util, built>>

\* ------------------------------------------------------------------ values
Obj(r, v) == [ref |-> r, val |-> v]

NoSub == Obj(0, 0)

NoSnap == [k \in KeySet |-> NoSub]

NoRet == [ref |-> 0, subs |-> NoSnap]

\* The value undefined where a state object is expected.
Undefined == Obj(-1, 0)

\* The initialState object of each slice configuration passed to Store.create:
\* { value: 0 } for the counter slice, { count: 0 } for the raw reducer.
SliceInitial(k) == IF k = "counter" THEN Obj(2, 0) ELSE Obj(3, 0)

\* Store.create: the root state is assembled from each slice's initialState.
InitialStateMutant == [ref |-> 1, subs |-> NoSnap]
InitialState == [ref |-> 1, subs |-> [k \in KeySet |-> SliceInitial(k)]]

Event(e, i, v) == [e |-> e, i |-> i, v |-> v]

Frame(k, pc, act, i, acc, chg) == [k |-> k, pc |-> pc, act |-> act, i |-> i, acc |-> acc, chg |-> chg]

MwFrame(i, act) == Frame("mw", "start", act, i, NoSnap, FALSE)

BaseFrame(act) == Frame("base", "enter", act, 0, NoSnap, FALSE)

\* combineReducers, line 203: nextState is an object without keys when the
\* loop starts.
NoKeys == [k \in {} |-> NoSub]

ReduceFrame(act) == Frame("reduce", "loop", act, 1, NoKeys, FALSE)

\* A slice handler that is suspended in a call; i holds the draft's value.
HandlerFrame(pc, act, draft) == Frame("handler", pc, act, draft, NoSnap, FALSE)

Top == stack[Len(stack)]

Pop(stk) == SubSeq(stk, 1, Len(stk) - 1)

SetTop(stk, f) == [stk EXCEPT ![Len(stk)] = f]

Running == stack # <<>> /\ exc = NoError

\* No slice reducer has been called directly.
NoCall ==
    [key |-> "counter", given |-> Undefined, act |-> Action("", 0), done |-> FALSE,
     value |-> Undefined, exc |-> NoError, ran |-> FALSE, returned |-> Undefined]

\* JavaScript values given as payloads: numbers, the empty object literal and
\* undefined.
NumberValue(n) == [t |-> "number", v |-> n]
EmptyObject == [t |-> "object", v |-> 0]
UndefinedValue == [t |-> "undefined", v |-> 0]

\* The identity function that compose returns for an empty list.
Identity == [k |-> "identity"]

\* The constructor is not modelled, or has not run yet.
NotBuilt == [done |-> FALSE, dispatch |-> Identity, calls |-> <<>>]

\* No utility has been called.
NoUtil ==
    [op |-> "none", via |-> "createAction", name |-> "counter", key |-> "increment", type |-> "",
     args |-> <<>>, act |-> [type |-> "", payload |-> UndefinedValue], funcs |-> <<>>, x |-> 0,
     done |-> FALSE, made |-> [type |-> "", payload |-> UndefinedValue], is |-> FALSE,
     composed |-> Identity, res |-> 0]

\* ------------------------------------------------------------- construction
InitWith(lists) ==
    /\ state = InitialState
    /\ isDispatching = FALSE
    /\ listeners = <<>>
    /\ mws \in lists
    /\ caps = {}
    /\ stack = <<>>
    /\ exc = NoError
    /\ ret = NoRet
    /\ nextRef = 3
    /\ ndisp = 0
    /\ log = <<>>
    /\ active = {}
    /\ held = <<>>
    /\ hist = <<>>
    /\ call = NoCall
    /\ stores = <<>>
    /\ util = NoUtil
    /\ built = NotBuilt

Init == InitWith(MiddlewareLists)

\* ------------------------------------------------------------------- store
\* Store.state: the guard of line 50.
StateGuardMutant == FALSE
StateGuard == isDispatching

\* Store.state: Object.freeze({ ...this._state }), a shallow copy whose keys map
\* to the store's sub-state objects.
Snapshot == state.subs

\* Store.state, line 51: the object literal makes a new object at every call.
SnapshotRefMutant == state.ref
SnapshotRef == nextRef + 1

\* Store._baseDispatch: the guard of line 112.
DispatchGuardMutant == FALSE
DispatchGuard == isDispatching

\* Store._baseDispatch: the flag value the finally block leaves (line 119).
FinallyFlagMutant == isDispatching
FinallyFlag == FALSE

\* Store._compose and Store._applyMiddleware: the next of stage i is the handler
\* of stage i + 1, and base-dispatch for the last stage.
NextOfOriginalMutant(i, act) ==
    IF i < Len(mws) THEN MwFrame(i + 1, stack[i].act) ELSE BaseFrame(stack[i].act)
NextOfMutant(i, act) == IF i > 1 THEN MwFrame(i - 1, act) ELSE BaseFrame(act)
NextOf(i, act) == IF i < Len(mws) THEN MwFrame(i + 1, act) ELSE BaseFrame(act)

\* thunkMiddleware given an action object: return next(action).
PassCallMutant(i, act) == NextOf(i, Rewritten(act))
PassCall(i, act) == NextOf(i, act)

\* Store.constructor: this._dispatch is base-dispatch, or the composed pipeline
\* (the first stage's handler) when middleware was given.
DispatchTargetMutant(act) == IF Len(mws) > 0 THEN MwFrame(Len(mws), act) ELSE BaseFrame(act)
DispatchTarget(act) == IF Len(mws) > 0 THEN MwFrame(1, act) ELSE BaseFrame(act)

\* Store._applyMiddleware, line 175: the dispatch of the middleware API calls
\* this._dispatch as it is at the time of the call, the composed pipeline.
ApiDispatchMutant(act) == BaseFrame(act)
ApiDispatch(act) == DispatchTarget(act)

\* combineReducers, line 203: nextState is a new object, so writing a slice's
\* next sub-state into it leaves the store's state object as it was.
NextStateIsFreshMutant == FALSE
NextStateIsFresh == TRUE

StateAfterWrite(key, next) ==
    IF NextStateIsFresh THEN state ELSE [state EXCEPT !.subs[key] = next]

\* Store._baseDispatch, line 122: forEach visits the Set in insertion order.
ListenerAtMutant(n) == listeners[Len(listeners) + 1 - n]
ListenerAt(n) == listeners[n]

\* Store._baseDispatch, line 122: the listeners are notified whatever the
\* reducer returned.
NotifiesMutant(next) == next.ref # state.ref
Notifies(next) == TRUE

\* The callbacks an application registers: the tests' listeners read
\* store.state(); one callback throws, and one dispatches an action.
Thrower == NumListeners + 1
Dispatcher == NumListeners + 2
ListenerKind(l) ==
    CASE l = Thrower -> "throws"
      [] l = Dispatcher -> "dispatches"
      [] OTHER -> "reads"

\* The dispatching callback is running: a notification loop below the top
\* frame is at that callback.
InListenerDispatch ==
    \E n \in 1..(Len(stack) - 1) :
        /\ stack[n].k = "base" /\ stack[n].pc = "notify"
        /\ stack[n].i > 1 /\ stack[n].i <= Len(listeners) + 1
        /\ ListenerKind(listeners[stack[n].i - 1]) = "dispatches"

\* A call made on a full call stack raises RangeError instead of running.
CanCall(stk) == Len(stk) < MaxDepth

\* Set.add: a callback already present keeps its position.
SetAddMutant(seq, l) == Append(seq, l)
SetAdd(seq, l) == IF \E n \in 1..Len(seq) : seq[n] = l THEN seq ELSE Append(seq, l)

\* Set.delete.
SetDeleteMutant(seq, l) == seq
SetDelete(seq, l) == SelectSeq(seq, LAMBDA x : x # l)

\* ------------------------------------------------------- application calls
\* store.dispatch(action) from the application (Store.dispatch).
StartDispatch(act) ==
    /\ stack = <<>>
    /\ ndisp < MaxDispatch
    /\ ndisp' = ndisp + 1
    /\ stack' = <<DispatchTarget(act)>>
    /\ exc' = NoError
    /\ log' = <<>>
    /\ UNCHANGED <<state, isDispatching, listeners, mws, caps, ret, nextRef, active, held, call, stores, util, built>>

Dispatch(act) == StartDispatch(act) /\ UNCHANGED hist

\* store.registerListener(listener): adds it and returns the capability.
AddListener(l) ==
    /\ stack = <<>>
    /\ listeners' = SetAdd(listeners, l)
    /\ caps' = caps \cup {l}
    /\ exc' = NoError
    /\ log' = <<>>
    /\ active' = active \cup {l}
    /\ UNCHANGED <<state, isDispatching, mws, stack, ret, nextRef, ndisp, held, call, stores, util, built>>

RegisterListener(l) == AddListener(l) /\ UNCHANGED hist

\* Invoking a capability registerListener returned for l.
RemoveListener(l) ==
    /\ stack = <<>>
    /\ l \in caps
    /\ listeners' = SetDelete(listeners, l)
    /\ exc' = NoError
    /\ log' = <<>>
    /\ active' = active \ {l}
    /\ UNCHANGED <<state, isDispatching, mws, caps, stack, ret, nextRef, ndisp, held, call, stores, util, built>>

Unregister(l) == RemoveListener(l) /\ UNCHANGED hist

\* store.state() from the application.
ReadState ==
    /\ stack = <<>>
    /\ exc' = IF StateGuard THEN StateError ELSE NoError
    /\ log' = IF StateGuard THEN <<>> ELSE <<Event("state", 0, Snapshot)>>
    /\ UNCHANGED <<state, isDispatching, listeners, mws, caps, stack, ret, nextRef, ndisp, active, held, call, stores, util, built>>

CallState == ReadState /\ UNCHANGED hist

\* ------------------------------------------------------------------ slices
\* createSlice: the routing table caseReducers of the counter slice, keyed by
\* "<name>/<handlerName>", and the switch of the raw reducer testReducer.
\* "none" is a missing entry.  Besides the handlers of the tests (inc, add,
\* rawInc) the application supplies handlers that call store.dispatch without
\* (reenter) and with (tryReenter) a try/catch around the call, that call
\* store.state() (readState) and that throw (fail, rawThrow); bump is handled
\* by both reducers, the second of which throws; reset returns a new state
\* object and leaves its draft alone ("replace").
HandlerKind(key, type) ==
    IF key = "counter"
    THEN CASE type = "counter/increment" -> "inc"
           [] type = "counter/decrement" -> "dec"
           [] type = "counter/incrementByAmount" -> "add"
           [] type = "counter/reset" -> "replace"
           [] type = "counter/bump" -> "inc"
           [] type = "counter/reenter" -> "reenter"
           [] type = "counter/tryReenter" -> "tryReenter"
           [] type = "counter/readState" -> "readState"
           [] type = "counter/fail" -> "fail"
           [] OTHER -> "none"
    ELSE CASE type = "INCREMENT" -> "rawInc"
           [] type = "counter/bump" -> "rawThrow"
           [] OTHER -> "none"

\* The cases that the counter slice's options register through the
\* extraReducers builder: builder.addCase(createAction("EXTERNAL"), handler)
\* with a handler that adds one to the value.  ReducerBuilder keeps them in its
\* own table; createSlice reads name, initialState and reducers from the
\* options (line 70) and looks handlers up in caseReducers alone (line 86), so
\* HandlerKind is the whole routing table of the slice reducer.
ExtraKind(key, type) == IF key = "counter" /\ type = "EXTERNAL" THEN "inc" ELSE "none"

\* immer produce: the base object itself when the draft ends up unchanged, a
\* new object otherwise.
ProduceMutant(base, v) == Obj(base.ref, v)
Produce(base, v) == IF v = base.val THEN base ELSE Obj(nextRef + 1, v)

\* createSlice, line 85: the default parameter state = initialState.
DefaultStateMutant(key, given) == given
DefaultState(key, given) == IF given = Undefined THEN SliceInitial(key) ELSE given

\* createSlice, line 87, and the default case of testReducer: return state.
UnhandledMutant(st) == Obj(nextRef + 1, st.val)
Unhandled(st) == st

\* What the handler for an action type returns: the reset handler returns a
\* new object { value: 0 }, the other handlers return nothing.
Returned(key, type) ==
    IF HandlerKind(key, type) = "replace" THEN Obj(nextRef + 1, 0) ELSE Undefined

\* createSlice, lines 88 to 90: the recipe given to produce calls the handler
\* in a block body without a return statement, so the recipe's own result is
\* undefined whatever the handler returned.
RecipeResultMutant(returned) == returned
RecipeResult(returned) == Undefined

\* immer produce for a recipe whose draft ends with value v: a result other
\* than undefined replaces the draft.
ProduceRecipe(base, v, result) == IF result # Undefined THEN result ELSE Produce(base, v)

\* The slice reducer of createSlice (lines 85 to 91) and the raw reducer
\* testReducer, for the handlers that neither throw nor call the store.
SliceReducer(key, given, act) ==
    LET st == DefaultState(key, given)
        kind == HandlerKind(key, act.type)
    IN CASE kind = "inc" -> Produce(st, st.val + 1)
         [] kind = "dec" -> Produce(st, st.val - 1)
         [] kind = "add" -> Produce(st, st.val + act.payload)
         [] kind = "replace" -> ProduceRecipe(st, st.val, RecipeResult(Returned(key, act.type)))
         [] kind = "rawInc" -> Obj(nextRef + 1, st.val + 1)
         [] OTHER -> Unhandled(st)

\* combineReducers, lines 211 to 212: the loop body after the slice reducer
\* returned next for the key at the frame's index.
Assign(obj, key, v) == [k \in DOMAIN obj \cup {key} |-> IF k = key THEN v ELSE obj[k]]

AccumulateChangedMutant(f, next) ==
    LET key == SliceKeys[f.i]
    IN [f EXCEPT !.acc = IF next.ref # state.subs[key].ref THEN Assign(f.acc, key, next) ELSE f.acc,
                 !.chg = f.chg \/ next.ref # state.subs[key].ref,
                 !.i = f.i + 1]
Accumulate(f, next) ==
    LET key == SliceKeys[f.i]
    IN [f EXCEPT !.acc = Assign(f.acc, key, next),
                 !.chg = f.chg \/ next.ref # state.subs[key].ref,
                 !.i = f.i + 1]

\* What a call leaves: the callee's frame on the stack, or RangeError.
CallResult(stk, fr) ==
    IF CanCall(stk) THEN [stack |-> Append(stk, fr), exc |-> NoError]
    ELSE [stack |-> stk, exc |-> RangeError]

\* ------------------------------------------------------------- middleware
\* A stage handler up to and including its call of next(action).
MwEnter ==
    /\ Running /\ Top.k = "mw" /\ Top.pc = "start"
    /\ LET f == Top
           kind == mws[f.i]
           called(pc) == CallResult(SetTop(stack, [f EXCEPT !.pc = pc]), NextOf(f.i, f.act))
           modified == CallResult(SetTop(stack, [f EXCEPT !.pc = "next"]),
                                  NextOf(f.i, Rewritten(f.act)))
           passed == CallResult(SetTop(stack, [f EXCEPT !.pc = "next"]), PassCall(f.i, f.act))
       IN CASE kind \in {"logger", "timing"} ->
                 /\ stack' = called("next").stack
                 /\ exc' = called("next").exc
                 /\ log' = Append(log, Event("enter", f.i, NoSnap))
            [] kind = "guard" ->
                 /\ stack' = called("try").stack
                 /\ exc' = called("try").exc
                 /\ log' = Append(log, Event("try", f.i, NoSnap))
            [] kind = "pass" ->
                 /\ stack' = passed.stack
                 /\ exc' = passed.exc
                 /\ log' = log
            [] kind = "modify" ->
                 /\ stack' = modified.stack
                 /\ exc' = modified.exc
                 /\ log' = log
            [] kind = "before" ->
                 IF StateGuard
                 THEN /\ stack' = Pop(stack)
                      /\ exc' = StateError
                      /\ log' = log
                 ELSE /\ stack' = called("next").stack
                      /\ exc' = called("next").exc
                      /\ log' = Append(log, Event("before", f.i, Snapshot))
            [] kind = "error" ->
                 /\ stack' = called("try").stack
                 /\ exc' = called("try").exc
                 /\ log' = log
            [] kind = "stop" ->
                 IF f.act.type = StoppedType
                 THEN /\ stack' = Pop(stack)
                      /\ exc' = NoError
                      /\ log' = Append(log, Event("stopped", f.i, NoSnap))
                 ELSE /\ stack' = called("next").stack
                      /\ exc' = called("next").exc
                      /\ log' = log
            [] kind = "spawn" ->
                 IF f.act.type = SpawnType
                 THEN LET issued == CallResult(SetTop(stack, [f EXCEPT !.pc = "spawned"]),
                                               ApiDispatch(InnerAction))
                      IN /\ stack' = issued.stack
                         /\ exc' = issued.exc
                         /\ log' = Append(log, Event("spawn", f.i, NoSnap))
                 ELSE /\ stack' = called("next").stack
                      /\ exc' = called("next").exc
                      /\ log' = log
    /\ UNCHANGED <<state, isDispatching, listeners, mws, caps, ret, nextRef, ndisp, active, held, hist, call, stores, util, built>>

\* The spawn stage after its store.dispatch returned: it calls next(action).
MwResume ==
    /\ Running /\ Top.k = "mw" /\ Top.pc = "spawned"
    /\ LET called == CallResult(SetTop(stack, [Top EXCEPT !.pc = "next"]), NextOf(Top.i, Top.act))
       IN /\ stack' = called.stack
          /\ exc' = called.exc
    /\ UNCHANGED <<state, isDispatching, listeners, mws, caps, ret, nextRef, ndisp, log, active, held, hist, call, stores, util, built>>

\* A stage handler after its call (next, or the dispatch of its catch block)
\* returned normally.
MwExit ==
    /\ Running /\ Top.k = "mw" /\ Top.pc \notin {"start", "spawned"}
    /\ LET f == Top
           kind == mws[f.i]
       IN IF kind \in {"logger", "before"} /\ StateGuard
          THEN /\ exc' = StateError
               /\ log' = log
          ELSE /\ exc' = NoError
               /\ log' = CASE kind = "logger" -> Append(log, Event("exit", f.i, Snapshot))
                           [] kind = "timing" -> Append(log, Event("exit", f.i, NoSnap))
                           [] kind = "before" -> Append(log, Event("after", f.i, Snapshot))
                           [] OTHER -> log
    /\ stack' = Pop(stack)
    /\ UNCHANGED <<state, isDispatching, listeners, mws, caps, ret, nextRef, ndisp, active, held, hist, call, stores, util, built>>

\* errorMiddleware: the catch block around next(action) dispatches ERROR
\* through the store's public dispatch (README), or logs the error and throws
\* it again (docs/middleware.md).
MwCatch ==
    /\ stack # <<>> /\ exc # NoError
    /\ Top.k = "mw" /\ Top.pc = "try"
    /\ LET f == Top
           called == CallResult(SetTop(stack, [f EXCEPT !.pc = "catch"]), ApiDispatch(ErrorAction))
       IN IF mws[f.i] = "guard"
          THEN /\ stack' = Pop(stack)
               /\ exc' = exc
               /\ log' = Append(log, Event("rethrown", f.i, NoSnap))
          ELSE /\ stack' = called.stack
               /\ exc' = called.exc
               /\ log' = Append(log, Event("caught", f.i, NoSnap))
    /\ UNCHANGED <<state, isDispatching, listeners, mws, caps, ret, nextRef, ndisp, active, held, hist, call, stores, util, built>>

\* ------------------------------------------------------------ base-dispatch
\* Store._baseDispatch, lines 112 to 117: the guard, then the flag and the
\* call of the root reducer.
BaseEnter ==
    /\ Running /\ Top.k = "base" /\ Top.pc = "enter"
    /\ IF DispatchGuard
       THEN /\ stack' = Pop(stack)
            /\ exc' = ReentrancyError
            /\ log' = Append(log, Event("reject", 0, NoSnap))
            /\ UNCHANGED isDispatching
       ELSE LET called == CallResult(SetTop(stack, [Top EXCEPT !.pc = "reducing"]), ReduceFrame(Top.act))
            IN /\ isDispatching' = TRUE
               /\ stack' = called.stack
               /\ exc' = called.exc
               /\ log' = IF called.exc = NoError THEN Append(log, Event("reduce", state.ref, state.subs)) ELSE log
    /\ UNCHANGED <<state, listeners, mws, caps, ret, nextRef, ndisp, active, held, hist, call, stores, util, built>>

\* Store._baseDispatch, lines 117 to 120: the reducer returned; the state is
\* replaced and the finally block clears the flag.
BaseCommit ==
    /\ Running /\ Top.k = "base" /\ Top.pc = "reducing"
    /\ state' = ret
    /\ ret' = NoRet
    /\ isDispatching' = FinallyFlag
    /\ stack' = IF Notifies(ret) THEN SetTop(stack, [Top EXCEPT !.pc = "notify", !.i = 1])
                 ELSE Pop(stack)
    /\ log' = Append(log, Event("commit", ret.ref, ret.subs))
    /\ UNCHANGED <<listeners, mws, caps, exc, nextRef, ndisp, active, held, hist, call, stores, util, built>>

\* Store._baseDispatch, lines 118 to 120: the reducer threw; the finally block
\* clears the flag and the exception goes on to the caller.
BaseFinally ==
    /\ stack # <<>> /\ exc # NoError
    /\ Top.k = "base" /\ Top.pc = "reducing"
    /\ isDispatching' = FinallyFlag
    /\ stack' = Pop(stack)
    /\ UNCHANGED <<state, listeners, mws, caps, exc, ret, nextRef, ndisp, log, active, held, hist, call, stores, util, built>>

\* Store._baseDispatch, line 122: forEach invokes the next listener, which
\* reads store.state().
\* A callback that throws does so at once; one that dispatches reads the
\* state and then, unless it is already inside a dispatch of its own, calls
\* store.dispatch before it returns.
BaseNotify ==
    /\ Running /\ Top.k = "base" /\ Top.pc = "notify"
    /\ Top.i <= Len(listeners)
    /\ LET l == ListenerAt(Top.i)
           visited == SetTop(stack, [Top EXCEPT !.i = Top.i + 1])
           called == CallResult(visited, DispatchTarget(InnerAction))
       IN CASE ListenerKind(l) = "throws" ->
                 /\ exc' = ListenerError
                 /\ stack' = visited
                 /\ log' = Append(log, Event("threw", l, NoSnap))
            [] StateGuard ->
                 /\ exc' = StateError
                 /\ UNCHANGED <<stack, log>>
            [] ListenerKind(l) = "dispatches" /\ ~InListenerDispatch ->
                 /\ stack' = called.stack
                 /\ exc' = called.exc
                 /\ log' = Append(log, Event("listener", l, Snapshot))
            [] OTHER ->
                 /\ stack' = visited
                 /\ log' = Append(log, Event("listener", l, Snapshot))
                 /\ UNCHANGED exc
    /\ UNCHANGED <<state, isDispatching, listeners, mws, caps, ret, nextRef, ndisp, active, held, hist, call, stores, util, built>>

\* Store._baseDispatch returns once forEach has visited every listener.
BaseReturn ==
    /\ Running /\ Top.k = "base" /\ Top.pc = "notify"
    /\ Top.i > Len(listeners)
    /\ stack' = Pop(stack)
    /\ UNCHANGED <<state, isDispatching, listeners, mws, caps, exc, ret, nextRef, ndisp, log, active, held, hist, call, stores, util, built>>

\* ------------------------------------------------------------ root reducer
\* combineReducers, lines 206 to 213: one iteration of the loop, calling the
\* slice reducer of the key at the frame's index.
ReduceStep ==
    /\ Running /\ Top.k = "reduce"
    /\ Top.i <= Len(SliceKeys)
    /\ LET f == Top
           key == SliceKeys[f.i]
           prev == state.subs[key]
           kind == HandlerKind(key, f.act.type)
           next == SliceReducer(key, prev, f.act)
           \* the handler changes its draft, then calls store.dispatch
           hf == HandlerFrame(IF kind = "reenter" THEN "call" ELSE "tryCall", f.act, prev.val + 1)
           called == CallResult(Append(stack, hf), DispatchTarget(InnerAction))
       IN CASE kind \in {"fail", "rawThrow"} ->
                 /\ exc' = HandlerError
                 /\ UNCHANGED <<state, stack, nextRef, log>>
            [] kind = "readState" /\ StateGuard ->
                 /\ exc' = StateError
                 /\ UNCHANGED <<state, stack, nextRef, log>>
            [] kind \in {"reenter", "tryReenter"} ->
                 /\ stack' = called.stack
                 /\ exc' = called.exc
                 /\ log' = Append(log, Event("innerDispatch", prev.val + 1, NoSnap))
                 /\ UNCHANGED <<state, nextRef>>
            [] OTHER ->
                 /\ stack' = SetTop(stack, Accumulate(f, next))
                 /\ nextRef' = IF next.ref > nextRef THEN next.ref ELSE nextRef
                 /\ state' = StateAfterWrite(key, next)
                 /\ UNCHANGED <<exc, log>>
    /\ UNCHANGED <<isDispatching, listeners, mws, caps, ret, ndisp, active, held, hist, call, stores, util, built>>

\* combineReducers, line 215: return hasChanged ? nextState : state.
RootResultMutant(f) == state
RootResultFreshMutant(f) == [ref |-> nextRef + 1, subs |-> f.acc]
RootResult(f) == IF f.chg THEN [ref |-> nextRef + 1, subs |-> f.acc] ELSE state

ReduceReturn ==
    /\ Running /\ Top.k = "reduce"
    /\ Top.i > Len(SliceKeys)
    /\ ret' = RootResult(Top)
    /\ nextRef' = IF Top.chg THEN nextRef + 1 ELSE nextRef
    /\ stack' = Pop(stack)
    /\ UNCHANGED <<state, isDispatching, listeners, mws, caps, exc, ndisp, log, active, held, hist, call, stores, util, built>>

\* The slice reducer's produce call ends: the handler frame leaves and the
\* loop of combineReducers takes the produced sub-state.
FinishHandler ==
    LET f == Top
        below == Pop(stack)
        rf == below[Len(below)]
        next == Produce(state.subs[SliceKeys[rf.i]], f.i)
    IN /\ stack' = SetTop(below, Accumulate(rf, next))
       /\ nextRef' = IF next.ref > nextRef THEN next.ref ELSE nextRef
       /\ state' = StateAfterWrite(SliceKeys[rf.i], next)

\* A handler whose call of store.dispatch returned normally.
HandlerReturn ==
    /\ Running /\ Top.k = "handler"
    /\ FinishHandler
    /\ log' = Append(log, Event("handlerReturned", 0, NoSnap))
    /\ UNCHANGED <<isDispatching, listeners, mws, caps, exc, ret, ndisp, active, held, hist, call, stores, util, built>>

\* A handler that wrapped its call of store.dispatch in try/catch.
HandlerCatch ==
    /\ stack # <<>> /\ exc # NoError
    /\ Top.k = "handler" /\ Top.pc = "tryCall"
    /\ FinishHandler
    /\ log' = Append(log, Event("handlerCaught", IF exc = ReentrancyError THEN 1 ELSE 0, NoSnap))
    /\ exc' = NoError
    /\ UNCHANGED <<isDispatching, listeners, mws, caps, ret, ndisp, active, held, hist, call, stores, util, built>>

\* ------------------------------------------------------------- exceptions
\* A frame with no handler for the exception in flight is left.
Catches(f) ==
    \/ f.k = "mw" /\ f.pc = "try"
    \/ f.k = "handler" /\ f.pc = "tryCall"
    \/ f.k = "base" /\ f.pc = "reducing"

Propagate ==
    /\ stack # <<>> /\ exc # NoError
    /\ ~Catches(Top)
    /\ stack' = Pop(stack)
    /\ UNCHANGED <<state, isDispatching, listeners, mws, caps, exc, ret, nextRef, ndisp, log, active, held, hist, call, stores, util, built>>

\* ------------------------------------------------------------ specification
Next ==
    \/ \E act \in Actions : Dispatch(act)
    \/ \E l \in ListenerIds : RegisterListener(l)
    \/ \E l \in ListenerIds : Unregister(l)
    \/ CallState
    \/ MwEnter
    \/ MwExit
    \/ MwResume
    \/ MwCatch
    \/ BaseEnter
    \/ BaseCommit
    \/ BaseFinally
    \/ BaseNotify
    \/ BaseReturn
    \/ ReduceStep
    \/ ReduceReturn
    \/ HandlerReturn
    \/ HandlerCatch
    \/ Propagate

Spec == Init /\ [][Next]_vars

\* ------------------------------------------------ slice reducers on their own
\* A slice reducer called directly, as the slice tests do: reducer(state,
\* action) with undefined, the slice's initialState object or another object.
GivenStates(key) == {Undefined, SliceInitial(key)} \cup {Obj(4, v) : v \in {0, 1, 5}}

\* The actions passed to it: the slice's own, another reducer's, and unknown
\* ones, among them the empty type of the slice tests.
SliceActions ==
    {Action(t, 0) : t \in {"counter/increment", "counter/decrement", "counter/reset",
                           "counter/fail", "INCREMENT", "UNKNOWN", "", "increment",
                           "counter/", "todos/increment", "EXTERNAL"}}
    \cup {Action("counter/incrementByAmount", p) : p \in Payloads}

SliceInit ==
    /\ state = InitialState
    /\ isDispatching = FALSE
    /\ listeners = <<>>
    /\ mws = <<>>
    /\ caps = {}
    /\ stack = <<>>
    /\ exc = NoError
    /\ ret = NoRet
    /\ nextRef = 4
    /\ ndisp = 0
    /\ log = <<>>
    /\ active = {}
    /\ held = <<>>
    /\ hist = <<>>
    /\ stores = <<>>
    /\ util = NoUtil
    /\ built = NotBuilt
    /\ call \in {[NoCall EXCEPT !.key = k, !.given = g, !.act = a] :
                    k \in KeySet, g \in UNION {GivenStates(j) : j \in KeySet}, a \in SliceActions}

\* reducer(given, act): what it returns or throws.
CallSlice ==
    /\ ~call.done
    /\ LET kind == HandlerKind(call.key, call.act.type)
           throws == kind \in {"fail", "rawThrow"}
           out == SliceReducer(call.key, call.given, call.act)
       IN /\ call' = [call EXCEPT !.done = TRUE,
                                   !.ran = kind # "none",
                                   !.returned = Returned(call.key, call.act.type),
                                   !.exc = IF throws THEN HandlerError ELSE NoError,
                                   !.value = IF throws THEN Undefined ELSE out]
          /\ nextRef' = IF ~throws /\ out.ref > nextRef THEN out.ref ELSE nextRef
    /\ UNCHANGED <<state, isDispatching, listeners, mws, caps, stack, exc, ret, ndisp, log, active,
                   held, hist, stores, util, built>>

SliceNext == CallSlice

SliceSpec == SliceInit /\ [][SliceNext]_vars

\* ------------------------------------------------------------- two stores
\* The application calls Store.create twice with the same slice
\* configurations and no middleware, and uses both stores.  A dispatch is
\* taken as one step here: the guard, the root reducer, the replacement of the
\* state and the round of notifications (Store._baseDispatch).
StoreIds == {1, 2}

\* Store, lines 18 to 22: _state, _listeners and _isDispatching are fields of
\* the instance, so store s reads and writes its own.
FieldsOfMutant(s) == 1
FieldsOf(s) == s

\* Store.create: a new root object per store around the initialState objects
\* of the slice configurations, which both stores are given.
NewStore(r) ==
    [state |-> [ref |-> r, subs |-> [k \in KeySet |-> SliceInitial(k)]],
     flag |-> FALSE, listeners |-> <<>>, hist |-> <<>>, calls |-> <<>>]

\* Some reducer throws for the action.
Throws(act) == \E k \in KeySet : HandlerKind(k, act.type) \in {"fail", "rawThrow"}

\* combineReducers applied to st and an action no reducer throws for: the
\* sub-state objects the slice reducers return, in a new root object when one
\* of them is not the object it was given.  At most one reducer makes a new
\* object for the actions dispatched here; the root object is made after it.
RootReducer(st, act) ==
    LET nx == [k \in KeySet |-> SliceReducer(k, st.subs[k], act)]
    IN IF \E k \in KeySet : nx[k].ref # st.subs[k].ref
       THEN [ref |-> nextRef + 2, subs |-> nx]
       ELSE st

TwoActions == {Action(t, 0) : t \in {"counter/increment", "counter/fail", "INCREMENT"}}

TwoInit ==
    /\ state = InitialState
    /\ isDispatching = FALSE
    /\ listeners = <<>>
    /\ mws = <<>>
    /\ caps = {}
    /\ stack = <<>>
    /\ exc = NoError
    /\ ret = NoRet
    /\ nextRef = 4
    /\ ndisp = 0
    /\ log = <<>>
    /\ active = {}
    /\ held = <<>>
    /\ hist = <<>>
    /\ call = NoCall
    /\ util = NoUtil
    /\ built = NotBuilt
    /\ stores = [s \in StoreIds |-> NewStore(IF s = 1 THEN 1 ELSE 4)]

\* stores[s].dispatch(act).  hist and calls are history: the actions
\* dispatched to store s, and the listeners its dispatches invoked.
StoreDispatch(s, act) ==
    /\ ndisp < MaxDispatch
    /\ ndisp' = ndisp + 1
    /\ LET mine == stores[FieldsOf(s)]
           next == RootReducer(mine.state, act)
       IN IF mine.flag
          THEN /\ exc' = ReentrancyError
               /\ UNCHANGED <<stores, nextRef>>
          ELSE IF Throws(act)
          THEN /\ exc' = HandlerError
               /\ stores' = [stores EXCEPT ![s].hist = Append(@, act)]
               /\ UNCHANGED nextRef
          ELSE /\ exc' = NoError
               /\ stores' = [stores EXCEPT ![FieldsOf(s)].state = next,
                                           ![s].hist = Append(@, act),
                                           ![s].calls = @ \o mine.listeners]
               /\ nextRef' = IF next.ref > nextRef THEN next.ref ELSE nextRef
    /\ UNCHANGED <<state, isDispatching, listeners, mws, caps, stack, ret, log, active, held, hist,
                   call, util, built>>

\* stores[s].registerListener(l): reg records the store it was registered with.
StoreRegister(s, l) ==
    /\ stores' = [stores EXCEPT ![FieldsOf(s)].listeners = SetAdd(@, [reg |-> s, l |-> l])]
    /\ UNCHANGED <<state, isDispatching, listeners, mws, caps, stack, exc, ret, nextRef, ndisp, log,
                   active, held, hist, call, util, built>>

TwoNext ==
    \/ \E s \in StoreIds, act \in TwoActions : StoreDispatch(s, act)
    \/ \E s \in StoreIds, l \in ListenerIds : StoreRegister(s, l)

TwoSpec == TwoInit /\ [][TwoNext]_vars

\* ------------------------------------------- action utilities and compose
\* createAction(type): a closure over type.  An action creator is represented
\* by what its closure captured.
CreateAction(type) == [type |-> type]

\* creator(payload?): the object literal { type, payload }; a parameter that
\* is not given is undefined.
CallCreatorMutant(c, args) == [type |-> c.type, payload |-> UndefinedValue]
CallCreator(c, args) ==
    [type |-> c.type, payload |-> IF args = <<>> THEN UndefinedValue ELSE args[1]]

\* createActionWithType(type).
CreateActionWithType(type) == [actionCreator |-> CreateAction(type), type |-> type]

\* createActions(actionTypes): createAction(type) for every entry.
CreateActions(actionTypes) == [key \in DOMAIN actionTypes |-> CreateAction(actionTypes[key])]

\* createSlice, line 76: the template literal `${name}/${key}`.
ActionType(name, key) == name \o "/" \o key

\* createSlice, lines 75 to 82: slice.actions, one creator per key of reducers.
SliceCreators(name, keys) == [key \in keys |-> [type |-> ActionType(name, key)]]

\* isActionOf(actionCreator)(action): the creator is called with an empty
\* object and the types are compared with ===.
IsActionOfMutant(c, a) == a = CallCreator(c, <<EmptyObject>>)
IsActionOf(c, a) == a.type = CallCreator(c, <<EmptyObject>>).type

\* The functions given to compose in the examples.
Prims == {"double", "add1", "negate"}
Prim(name, x) ==
    CASE name = "double" -> x * 2
      [] name = "add1" -> x + 1
      [] name = "negate" -> 0 - x

\* A function value: the identity, a given function, or the closure
\* (...args) => a(b(...args)) that the reducer callback of compose makes.
Given(name) == [k |-> "given", name |-> name]
ClosureMutant(a, b) == [k |-> "closure", a |-> b, b |-> a]
Closure(a, b) == [k |-> "closure", a |-> a, b |-> b]

\* Array.prototype.reduce without an initial value: the accumulator starts
\* as the first element.
RECURSIVE ReduceFuncs(_, _)
ReduceFuncs(acc, rest) ==
    IF rest = <<>> THEN acc ELSE ReduceFuncs(Closure(acc, Given(Head(rest))), Tail(rest))

\* Store._compose(...funcs).
Compose(funcs) ==
    IF Len(funcs) = 0 THEN Identity
    ELSE IF Len(funcs) = 1 THEN Given(funcs[1])
    ELSE ReduceFuncs(Given(funcs[1]), Tail(funcs))

\* Calling a function value with x.
RECURSIVE CallFunction(_, _)
CallFunction(f, x) ==
    CASE f.k = "identity" -> x
      [] f.k = "given" -> Prim(f.name, x)
      [] f.k = "closure" -> CallFunction(f.a, CallFunction(f.b, x))

\* The inputs of the calls: how the creator was obtained, the argument list
\* it is called with, the action given to the guard, the functions composed.
CreatorSources == {"createAction", "createActionWithType", "createSlice", "createActions"}
SliceNames == {"counter", "todos"}
ReducerKeys == {"increment", "incrementByAmount"}
TodoTypes == [add |-> "todo/add", remove |-> "todo/remove", toggle |-> "todo/toggle"]
GivenTypes == {"counter/increment", "todo/add", "reset"}
Arguments == {<<>>, <<NumberValue(0)>>, <<NumberValue(5)>>, <<EmptyObject>>, <<UndefinedValue>>}
TestedActions ==
    {[type |-> t, payload |-> p] :
        t \in {"counter/increment", "todos/increment", "todo/add", "todo/remove", "reset", "other"},
        p \in {UndefinedValue, EmptyObject, NumberValue(5)}}
FuncLists == UNION {[1..n -> Prims] : n \in 0..MaxFuncs}

\* The creator that the call of util obtains.
CreatorOf(u) ==
    CASE u.via = "createAction" -> CreateAction(u.type)
      [] u.via = "createActionWithType" -> CreateActionWithType(u.type).actionCreator
      [] u.via = "createSlice" -> SliceCreators(u.name, ReducerKeys)[u.key]
      [] u.via = "createActions" -> CreateActions(TodoTypes)[u.key]

CreatorInputs ==
    {[NoUtil EXCEPT !.via = v, !.type = t] :
        v \in {"createAction", "createActionWithType"}, t \in GivenTypes}
    \cup {[NoUtil EXCEPT !.via = "createSlice", !.name = n, !.key = k] :
            n \in SliceNames, k \in ReducerKeys}
    \cup {[NoUtil EXCEPT !.via = "createActions", !.key = k] : k \in DOMAIN TodoTypes}

UtilCalls ==
    {[u EXCEPT !.op = "create", !.args = a] : u \in CreatorInputs, a \in Arguments}
    \cup {[u EXCEPT !.op = "isActionOf", !.act = a] : u \in CreatorInputs, a \in TestedActions}
    \cup {[NoUtil EXCEPT !.op = "compose", !.funcs = f, !.x = x] : f \in FuncLists, x \in 0..MaxArg}

UtilInit ==
    /\ state = InitialState
    /\ isDispatching = FALSE
    /\ listeners = <<>>
    /\ mws = <<>>
    /\ caps = {}
    /\ stack = <<>>
    /\ exc = NoError
    /\ ret = NoRet
    /\ nextRef = 3
    /\ ndisp = 0
    /\ log = <<>>
    /\ active = {}
    /\ held = <<>>
    /\ hist = <<>>
    /\ call = NoCall
    /\ stores = <<>>
    /\ built = NotBuilt
    /\ util \in UtilCalls

UtilUnchanged ==
    UNCHANGED <<state, isDispatching, listeners, mws, caps, stack, exc, ret, nextRef, ndisp, log,
                active, held, hist, call, stores, built>>

\* creator(...args) for a creator of one of the four sources.
ApplyCreator ==
    /\ util.op = "create" /\ ~util.done
    /\ util' = [util EXCEPT !.done = TRUE, !.made = CallCreator(CreatorOf(util), util.args)]
    /\ UtilUnchanged

\* isActionOf(creator)(action).
ApplyIsActionOf ==
    /\ util.op = "isActionOf" /\ ~util.done
    /\ util' = [util EXCEPT !.done = TRUE, !.is = IsActionOf(CreatorOf(util), util.act)]
    /\ UtilUnchanged

\* compose(...funcs)(x).
ApplyCompose ==
    /\ util.op = "compose" /\ ~util.done
    /\ LET f == Compose(util.funcs)
       IN util' = [util EXCEPT !.done = TRUE, !.composed = f, !.res = CallFunction(f, util.x)]
    /\ UtilUnchanged

UtilNext == ApplyCreator \/ ApplyIsActionOf \/ ApplyCompose

UtilSpec == UtilInit /\ [][UtilNext]_vars

\* ------------------------------------------------------ store construction
\* The function values the constructor handles: base-dispatch bound to the
\* store, and the action handler that the chain-link function of stage i
\* returns when it is called with next.
BoundBase == [k |-> "base"]
StageHandler(i, next) == [k |-> "handler", i |-> i, next |-> next]

\* Calling the function value f with the argument x during construction.  The
\* functions given to compose are the chain-link functions, named by their
\* stage; calls lists the chain-link calls made, oldest first.
RECURSIVE CallLinks(_, _)
CallLinks(f, x) ==
    CASE f.k = "identity" -> [value |-> x, calls |-> <<>>]
      [] f.k = "given" ->
           [value |-> StageHandler(f.name, x), calls |-> <<Event("link", f.name, x)>>]
      [] f.k = "closure" ->
           LET inner == CallLinks(f.b, x)
               outer == CallLinks(f.a, inner.value)
           IN [value |-> outer.value, calls |-> inner.calls \o outer.calls]

\* Store._applyMiddleware: map calls every setup function with the store API,
\* in list order; compose folds the chain-link functions it returned, and the
\* result is called with base-dispatch.
ApplyMiddleware(middlewares) ==
    LET setups == [i \in 1..Len(middlewares) |-> Event("setup", i, NoSnap)]
        chain == [i \in 1..Len(middlewares) |-> i]
        pipe == CallLinks(Compose(chain), BoundBase)
    IN [done |-> TRUE, dispatch |-> pipe.value, calls |-> setups \o pipe.calls]

\* Store.constructor: this._dispatch is base-dispatch, replaced by the result
\* of _applyMiddleware when the list is not empty.
Constructor(middlewares) ==
    IF Len(middlewares) > 0 THEN ApplyMiddleware(middlewares)
    ELSE [done |-> TRUE, dispatch |-> BoundBase, calls |-> <<>>]

\* Store.create has not run yet: the application has its middleware list.
BuildInit == Init

\* Store.create(reducers, middlewares).
Construct ==
    /\ ~built.done
    /\ built' = Constructor(mws)
    /\ UNCHANGED <<state, isDispatching, listeners, mws, caps, stack, exc, ret, nextRef, ndisp, log,
                   active, held, hist, call, stores, util>>

\* The store is used once it exists.
BuildNext ==
    \/ Construct
    \/ built.done /\ Next

BuildSpec == BuildInit /\ [][BuildNext]_vars

\* ------------------------------------- an application that keeps capabilities
\* The application keeps every capability that registerListener returned and
\* may invoke any of them at any time.  hist lists its registerListener calls
\* and capability invocations; the capability of the n-th call is named n.
RegistryInit == Init /\ mws = <<>>

Register(l) ==
    /\ Len(hist) < MaxCalls
    /\ AddListener(l)
    /\ hist' = Append(hist, [op |-> "register", l |-> l, cap |-> Len(hist) + 1])

\* The capability is the closure () => this._listeners.delete(listener) over
\* the callback given to its registerListener call.
InvokeCapability(n) ==
    /\ Len(hist) < MaxCalls
    /\ n \in 1..Len(hist)
    /\ hist[n].op = "register"
    /\ RemoveListener(hist[n].l)
    /\ hist' = Append(hist, [op |-> "unregister", l |-> hist[n].l, cap |-> n])

RegistryNext ==
    \/ \E l \in ListenerIds : Register(l)
    \/ \E n \in 1..MaxCalls : InvokeCapability(n)
    \/ Dispatch(InnerAction)
    \/ BaseEnter
    \/ ReduceStep
    \/ ReduceReturn
    \/ BaseCommit
    \/ BaseNotify
    \/ BaseReturn

RegistrySpec == RegistryInit /\ [][RegistryNext]_vars

\* ------------------------------------- callbacks that throw or dispatch
\* A store without middleware whose application registers a reading callback,
\* a throwing one and a dispatching one, in any order, and dispatches.
ListenerCallbacks == {1, Thrower, Dispatcher}

ListenerActions == {Action(t, 0) : t \in {"counter/increment", "counter/fail"}}

ListenerInit == Init /\ mws = <<>>

ListenerNext ==
    \/ \E l \in ListenerCallbacks : RegisterListener(l)
    \/ \E l \in ListenerCallbacks : Unregister(l)
    \/ \E act \in ListenerActions : Dispatch(act)
    \/ BaseEnter
    \/ ReduceStep
    \/ ReduceReturn
    \/ BaseCommit
    \/ BaseFinally
    \/ BaseNotify
    \/ BaseReturn
    \/ Propagate

ListenerSpec == ListenerInit /\ [][ListenerNext]_vars

\* ------------------------------------- the same calls on two stores
\* A store created with stages that only pass the action along is given a
\* sequence of calls; then a store is created from the same reducers without
\* middleware and given the same calls.  hist records each call with what
\* the application could see before it; the entry of the second store's
\* creation separates the two runs.
PassLists == {<<"pass">>, <<"pass", "pass">>}

PassActions == {Action(t, 0) : t \in {"counter/increment", "counter/reenter"}}

PassCallbacks == {1, Dispatcher}

\* What the application can see between calls: the state and the listeners
\* behind the store's interface, the error of the last call, and what that
\* call did (reducer runs, commits, rejections, listener invocations and the
\* states they read).
Observation ==
    [state |-> state, flag |-> isDispatching, listeners |-> listeners,
     exc |-> exc, log |-> log]

Creation == {n \in 1..Len(hist) : hist[n].call.op = "create"}
Replaying == Creation # {}
Created == CHOOSE n \in Creation : TRUE
Replayed == Len(hist) - Created

PassInit == InitWith(PassLists)

Perform(c) ==
    CASE c.op = "dispatch" -> StartDispatch(c.arg)
      [] c.op = "register" -> AddListener(c.arg)
      [] c.op = "unregister" -> RemoveListener(c.arg)
      [] c.op = "state" -> ReadState

Call(c) ==
    /\ ~Replaying
    /\ Len(hist) < MaxCalls
    /\ Perform(c)
    /\ hist' = Append(hist, [obs |-> Observation, call |-> c])

\* Store.create(reducers) with the same reducers and no middleware.
CreatePlain ==
    /\ stack = <<>>
    /\ ~Replaying
    /\ hist # <<>>
    /\ state' = InitialState
    /\ isDispatching' = FALSE
    /\ listeners' = <<>>
    /\ mws' = <<>>
    /\ caps' = {}
    /\ exc' = NoError
    /\ nextRef' = 3
    /\ ndisp' = 0
    /\ log' = <<>>
    /\ active' = {}
    /\ hist' = Append(hist, [obs |-> Observation, call |-> [op |-> "create", arg |-> 0]])
    /\ UNCHANGED <<stack, ret, held, call, stores, util, built>>

\* The next call of the first run, made on the second store.
Replay ==
    /\ Replaying
    /\ Replayed + 1 < Created
    /\ Perform(hist[Replayed + 1].call)
    /\ hist' = Append(hist, [obs |-> Observation, call |-> hist[Replayed + 1].call])

PassNext ==
    \/ \E act \in PassActions : Call([op |-> "dispatch", arg |-> act])
    \/ \E l \in PassCallbacks : Call([op |-> "register", arg |-> l])
    \/ \E l \in PassCallbacks : Call([op |-> "unregister", arg |-> l])
    \/ Call([op |-> "state", arg |-> 0])
    \/ CreatePlain
    \/ Replay
    \/ MwEnter
    \/ MwExit
    \/ BaseEnter
    \/ ReduceStep
    \/ ReduceReturn
    \/ BaseCommit
    \/ BaseFinally
    \/ BaseNotify
    \/ BaseReturn
    \/ Propagate

PassSpec == PassInit /\ [][PassNext]_vars

\* ------------------------------------- an application that keeps snapshots
\* The application of the store tests: it dispatches the counter actions, an
\* action of the raw reducer, an unknown one and throwing ones, and compares
\* the results of state() taken before and after (tests/store.test.ts, lines
\* 50 to 70), in a store without middleware or with the logger.
SnapshotActions ==
    {Action(t, 0) : t \in {"counter/increment", "counter/decrement", "counter/bump",
                           "counter/fail", "INCREMENT", "UNKNOWN"}}
    \cup {Action("counter/incrementByAmount", p) : p \in {0, 5}}

SnapshotLists == {<<>>, <<"logger">>}

SnapshotInit == Init /\ mws \in SnapshotLists

\* store.dispatch(action) from this application; hist records the action.
RecordedDispatch(act) == StartDispatch(act) /\ hist' = Append(hist, act)

\* const s = store.state(): the application keeps the returned object.  at is
\* the number of dispatches made before, root the identity of Store._state.
KeepSnapshot ==
    /\ stack = <<>>
    /\ Len(held) < MaxReads
    /\ IF StateGuard
       THEN /\ exc' = StateError
            /\ log' = <<>>
            /\ UNCHANGED <<held, nextRef>>
       ELSE /\ exc' = NoError
            /\ log' = <<Event("state", 0, Snapshot)>>
            /\ held' = Append(held, [ref |-> SnapshotRef, subs |-> Snapshot,
                                     root |-> state.ref, at |-> Len(hist)])
            /\ nextRef' = IF SnapshotRef > nextRef THEN SnapshotRef ELSE nextRef
    /\ UNCHANGED <<state, isDispatching, listeners, mws, caps, stack, ret, ndisp, active, hist, call, stores, util, built>>

SnapshotNext ==
    \/ \E act \in SnapshotActions : RecordedDispatch(act)
    \/ KeepSnapshot
    \/ MwEnter
    \/ MwExit
    \/ BaseEnter
    \/ BaseCommit
    \/ BaseFinally
    \/ BaseReturn
    \/ ReduceStep
    \/ ReduceReturn
    \/ Propagate

SnapshotSpec == SnapshotInit /\ [][SnapshotNext]_vars

\* ----------------------------------------------------------- observations
HasEvent(e) == \E n \in 1..Len(log) : log[n].e = e

\* The index of the last event e of the log, 0 when there is none.
LastIndex(e) ==
    LET S == {n \in 1..Len(log) : log[n].e = e}
    IN IF S = {} THEN 0 ELSE CHOOSE n \in S : \A m \in S : m <= n

\* Root-reducer executions in progress.
ReducerRuns == {n \in 1..Len(stack) : stack[n].k = "reduce"}

\* Base-dispatch frames whose reducer call has not returned yet.
Reducing == {n \in 1..Len(stack) : stack[n].k = "base" /\ stack[n].pc = "reducing"}

AtBaseEntry == Running /\ Top.k = "base" /\ Top.pc = "enter"

\* ------------------------------------------------------------------ claims
\* C1: base-dispatch entered while the reentrancy flag is set throws the
\* reentrancy error without invoking the root reducer, replacing the state or
\* notifying listeners; at most one root-reducer execution is ever in progress.
C1_RejectedEntry ==
    (AtBaseEntry /\ isDispatching) =>
        /\ exc' = ReentrancyError
        /\ stack' = Pop(stack)
        /\ state' = state
        /\ isDispatching' = isDispatching
        /\ ret' = ret
        /\ log' = Append(log, Event("reject", 0, NoSnap))

C1_SingleWriter == [](Cardinality(ReducerRuns) <= 1) /\ [][C1_RejectedEntry]_vars

\* A nested base-dispatch has just been rejected while the outer reducer runs.
C1_Witness ==
    /\ exc = ReentrancyError
    /\ isDispatching
    /\ Cardinality(ReducerRuns) = 1
    /\ log # <<>> /\ log[Len(log)].e = "reject"

\* C2 as stated: whenever a handler called dispatch during its execution, the
\* inner dispatch was rejected with the reentrancy error and the outer dispatch
\* completed, committing the handler's change and notifying the listeners.
C2_Original ==
    (stack = <<>> /\ HasEvent("innerDispatch")) =>
        /\ HasEvent("reject")
        /\ exc = NoError
        /\ \E n \in 1..Len(log) :
              /\ log[n].e = "commit"
              /\ n > LastIndex("innerDispatch")
              /\ log[n].v["counter"].val = log[LastIndex("innerDispatch")].i
              /\ Len(log) >= n + Len(listeners)
              /\ \A m \in 1..Len(listeners) :
                    log[n + m].e = "listener" /\ log[n + m].i = listeners[m]

\* The events logged from the handler's first call of dispatch on.
SinceInner == SubSeq(log, LastIndex("innerDispatch"), Len(log))

\* The handler's call of dispatch is over and the handler went on: it caught
\* the error, or the call returned.
HandlerWentOn ==
    \E n \in 1..Len(SinceInner) : SinceInner[n].e \in {"handlerCaught", "handlerReturned"}

\* C2, amended: an inner dispatch that reaches base-dispatch is rejected there
\* with the reentrancy error and never runs the reducer or commits.  The outer
\* dispatch commits the handler's change and notifies the listeners exactly
\* when no error escapes the handler; when one escapes, the outer
\* base-dispatch commits nothing and notifies nobody for that action.
C2_Reentrancy ==
    /\ \A n \in 1..Len(log) :
          (log[n].e = "innerDispatch" /\ n < Len(log)) =>
              \* what follows the handler's call is a stage of the pipeline or
              \* the rejection, never a reducer run
              /\ log[n + 1].e \in {"enter", "before", "stopped", "caught", "reject", "try",
                                   "handlerCaught", "handlerReturned"}
              /\ \A m \in (n + 1)..Len(log) :
                    log[m].e = "reduce" =>
                        \E h \in (n + 1)..(m - 1) :
                            log[h].e \in {"handlerCaught", "handlerReturned", "caught"}
    /\ (stack = <<>> /\ HasEvent("innerDispatch")) =>
          LET n0 == LastIndex("innerDispatch")
              d == log[n0].i
          IN IF HandlerWentOn
             THEN /\ exc = NoError
                  /\ state.subs["counter"].val = d
                  /\ \E n \in n0..Len(log) :
                        /\ log[n].e = "commit"
                        /\ log[n].v["counter"].val = d
                        /\ Len(log) >= n + Len(listeners)
                        /\ \A m \in 1..Len(listeners) :
                              log[n + m].e = "listener" /\ log[n + m].i = listeners[m]
             ELSE /\ state.subs["counter"].val = d - 1
                  /\ \A n \in n0..Len(log) :
                        log[n].e = "commit" => log[n].v["counter"].val = d - 1
                  /\ (\A n \in 1..Len(mws) : mws[n] # "error") => exc # NoError

\* A handler caught the reentrancy error of its inner dispatch, and the outer
\* dispatch committed its change and notified a listener.
C2_Witness ==
    /\ stack = <<>>
    /\ exc = NoError
    /\ \E n \in 1..Len(log) : log[n].e = "handlerCaught" /\ log[n].i = 1
    /\ HasEvent("reject")
    /\ HasEvent("listener")
    /\ state.subs["counter"].val = log[LastIndex("innerDispatch")].i

\* A step of user code that calls state(): a stage before or after next, a
\* handler, or a listener.
CallsState ==
    /\ Running
    /\ \/ Top.k = "mw" /\ Top.pc = "start" /\ mws[Top.i] = "before"
       \/ Top.k = "mw" /\ Top.pc = "next" /\ mws[Top.i] \in {"logger", "before"}
       \/ Top.k = "reduce" /\ Top.i <= Len(SliceKeys)
             /\ HandlerKind(SliceKeys[Top.i], Top.act.type) = "readState"
       \/ Top.k = "base" /\ Top.pc = "notify" /\ Top.i <= Len(listeners)

\* C3: state() throws whenever it is called while the reentrancy flag is set,
\* on the store or through the middleware API; with the flag clear it returns a
\* snapshot whose keys map to the store's current sub-states.
C3_GuardedRead ==
    /\ (CallsState /\ isDispatching) =>
          /\ exc' = StateError
          /\ log' = log
          /\ state' = state
    /\ (CallsState /\ ~isDispatching) =>
          /\ exc' = NoError
          /\ state' = state
          /\ Len(log') = Len(log) + 1
          /\ log'[Len(log')].v = state.subs
          /\ DOMAIN log'[Len(log')].v = KeySet

C3_StateGuarded ==
    /\ [][C3_GuardedRead]_vars
    /\ []((stack = <<>> /\ log # <<>> /\ log[1].e = "state") =>
             (exc = NoError /\ log[1].v = state.subs))

\* state() called through the middleware API while a reducer runs has thrown.
C3_Witness ==
    /\ exc = StateError
    /\ isDispatching
    /\ stack # <<>> /\ Top.k = "handler"
    /\ Len(mws) > 0

\* An exception thrown by the root reducer has arrived in base-dispatch.
BaseThrowing == stack # <<>> /\ exc # NoError /\ Top.k = "base" /\ Top.pc = "reducing"

\* The store's state is the one the last reducer run was given, and nothing
\* was committed or notified since that run began.
NothingCommitted ==
    LET n0 == LastIndex("reduce")
    IN /\ n0 > 0
       /\ state.ref = log[n0].i
       /\ state.subs = log[n0].v
       /\ \A n \in n0..Len(log) : log[n].e \notin {"commit", "listener"}

NoErrorStage == \A n \in 1..Len(mws) : mws[n] # "error"

\* C4: when a slice reducer throws during a dispatch, also after earlier slice
\* reducers computed changed sub-states, the exception reaches the caller of
\* the dispatch, the state is the state before the dispatch and no listener is
\* notified for it.
C4_ThrowStep ==
    BaseThrowing =>
        /\ state' = state
        /\ exc' = exc
        /\ log' = log
        /\ stack' = Pop(stack)

C4_NoPartialCommit ==
    /\ [](BaseThrowing => NothingCommitted)
    /\ []((stack = <<>> /\ exc = HandlerError) => NothingCommitted)
    /\ []((stack = <<>> /\ NoErrorStage /\ LastIndex("reduce") > LastIndex("commit")) =>
             exc # NoError)
    /\ [][C4_ThrowStep]_vars

\* The second slice reducer has thrown after the first one produced a changed
\* sub-state.
C4_Witness ==
    /\ exc = HandlerError
    /\ stack # <<>>
    /\ Top.k = "reduce" /\ Top.i = 2 /\ Top.chg
    /\ Top.acc["counter"].ref # state.subs["counter"].ref

\* C5: after a dispatch whose root reducer throws, the reentrancy flag is false
\* before the exception surfaces, so the next dispatch, also one a stage issues
\* from its catch block around next, is not rejected and state() does not throw.
C5_Steps ==
    /\ BaseThrowing => ~isDispatching'
    /\ (AtBaseEntry /\ Reducing = {}) => (exc' = NoError /\ isDispatching' /\ Reducing' # {})
    /\ (CallsState /\ Reducing = {}) => exc' = NoError

C5_FlagRestored == [](Reducing = {} => ~isDispatching) /\ [][C5_Steps]_vars

\* A stage caught the reducer's exception and the ERROR action it dispatched
\* from its catch block was committed.
C5_Witness ==
    /\ stack = <<>>
    /\ exc = NoError
    /\ ~HasEvent("innerDispatch")
    /\ HasEvent("caught")
    /\ LastIndex("commit") > LastIndex("caught")

\* Base-dispatch is in its notification loop.
Notifying == stack # <<>> /\ exc = NoError /\ Top.k = "base" /\ Top.pc = "notify"

\* The listeners invoked since the last commit, in order of invocation.
Round ==
    LET n0 == LastIndex("commit")
    IN [m \in 1..(Len(log) - n0) |-> log[n0 + m]]

C7_CommitStep ==
    (Running /\ Top.k = "base" /\ Top.pc = "reducing") =>
        /\ state' = ret
        /\ ~isDispatching'
        /\ log' = Append(log, Event("commit", ret.ref, ret.subs))

C7_NotifyAfterCommit ==
    /\ [][C7_CommitStep]_vars
    /\ []((stack # <<>> /\ Top.k = "base" /\ Top.pc = "notify") =>
             /\ ~isDispatching
             /\ exc = NoError
             /\ LastIndex("commit") > 0
             /\ state.ref = log[LastIndex("commit")].i
             /\ state.subs = log[LastIndex("commit")].v
             /\ \A m \in 1..Len(Round) :
                   Round[m].e = "listener" /\ Round[m].v = log[LastIndex("commit")].v)

\* A listener read the state a dispatch had just committed, which differs from
\* the state before the dispatch.
C7_Witness ==
    /\ Notifying
    /\ Len(Round) > 0
    /\ Round[1].v = state.subs
    /\ Round[1].v # log[LastIndex("reduce")].v

\* C8: a listener is called on every completed dispatch from its registration
\* until its unregister capability is invoked, and by no later dispatch; the
\* other listeners go on being called.
C8_Unregister ==
    Notifying =>
        /\ \A m \in 1..Len(Round) : Round[m].e = "listener" /\ Round[m].i \in active
        /\ Top.i > Len(listeners) => {Round[m].i : m \in 1..Len(Round)} = active

\* After listener 1 was unregistered, a second dispatch notified listener 2
\* alone.
C8_Witness ==
    /\ Notifying
    /\ ndisp = 2
    /\ caps = {1, 2}
    /\ active = {2}
    /\ Top.i > Len(listeners)
    /\ Len(Round) = 1 /\ Round[1].i = 2

\* C9: every dispatch that reaches base-dispatch and does not throw notifies
\* the listeners, also when the root reducer returned the identical state
\* object.
C9_NotifyUnchanged ==
    (stack = <<>> /\ exc = NoError) =>
        \A n \in 1..Len(log) :
            log[n].e = "commit" =>
                /\ Len(log) >= n + Len(listeners)
                /\ \A m \in 1..Len(listeners) :
                      log[n + m].e = "listener" /\ log[n + m].i = listeners[m]

\* A dispatch committed the very state object its reducer run was given and a
\* listener was notified.
C9_Witness ==
    /\ stack = <<>> /\ exc = NoError
    /\ LastIndex("commit") > 0
    /\ log[LastIndex("commit")].i = log[LastIndex("reduce")].i
    /\ LastIndex("listener") > LastIndex("commit")

\* The stage and reducer events of the log.
RECURSIVE PipelineEvents(_)
PipelineEvents(l) ==
    IF l = <<>> THEN <<>>
    ELSE LET h == l[1]
         IN (IF h.e \in {"enter", "exit"} THEN <<<<h.e, h.i>>>>
             ELSE IF h.e = "reduce" THEN <<<<"base-dispatch", 0>>>>
             ELSE <<>>) \o PipelineEvents(Tail(l))

HasStopStage == \E n \in 1..Len(mws) : mws[n] = "stop"

\* A stage dropped the action of the application's dispatch: it returned
\* without calling next, and no reducer run preceded it in this dispatch.
TopStopped(l) ==
    \E n \in 1..Len(l) :
        l[n].e = "stopped" /\ \A m \in 1..n : l[m].e # "reduce"

\* C11: when a stage handles an action without calling next or dispatch, the
\* action never reaches base-dispatch: for that dispatch the root reducer is
\* not run, the state stays as it was and no listener is notified.
C11_StoppedStep == TopStopped(log') => (state' = state /\ ~isDispatching')

C11_ShortCircuit ==
    /\ [](HasStopStage =>
             \A n \in 1..Len(stack) :
                 stack[n].k \in {"base", "reduce"} => stack[n].act.type # StoppedType)
    /\ [](TopStopped(log) =>
             \A n \in 1..Len(log) : log[n].e \notin {"reduce", "commit", "listener", "reject"})
    /\ [][C11_StoppedStep]_vars

\* After an earlier dispatch was committed, a dispatch that the second stage
\* dropped has returned in a store with a registered listener.
C11_Witness ==
    /\ stack = <<>> /\ exc = NoError
    /\ mws = <<"logger", "stop">>
    /\ Len(log) = 3 /\ log[2].e = "stopped" /\ log[3].e = "exit"
    /\ listeners # <<>>
    /\ state.subs["test"].val = 1

\* A stage frame suspended in a call of the middleware API's dispatch.
Issuing(f) == f.k = "mw" /\ f.pc \in {"catch", "spawned"}

\* C12: a dispatch that a stage issues through the middleware API's dispatch
\* enters the pipeline at the first stage and passes every stage, the issuing
\* one and the ones before it included; base-dispatch is only ever reached
\* through all the stages in order.
C12_FullPipeline ==
    /\ \A n \in 1..(Len(stack) - 1) :
          Issuing(stack[n]) =>
              /\ stack[n + 1].k = "mw" /\ stack[n + 1].i = 1
              /\ stack[n + 1].act = IF stack[n].pc = "catch" THEN ErrorAction ELSE InnerAction
    /\ \A p \in 1..Len(stack) :
          stack[p].k = "base" =>
              /\ p > Len(mws)
              /\ \A j \in 1..Len(mws) :
                    LET g == stack[p - Len(mws) + j - 1]
                    IN /\ g.k = "mw" /\ g.i = j /\ g.pc \in {"next", "try"}
                       /\ g.act = stack[p].act \/ \E n \in 1..Len(mws) : mws[n] = "modify"
    /\ (stack = <<>> /\ exc = NoError /\ mws = <<"logger", "spawn">> /\ HasEvent("spawn")) =>
          PipelineEvents(log) = << <<"enter", 1>>, <<"enter", 1>>, <<"base-dispatch", 0>>,
                                   <<"exit", 1>>, <<"base-dispatch", 0>>, <<"exit", 1>> >>

\* The dispatch issued by the second stage has passed the first stage again and
\* the issuing stage, and is in its reducer run.
C12_Witness ==
    /\ Len(stack) = 6
    /\ stack[1].k = "mw" /\ stack[1].i = 1 /\ stack[1].act.type = SpawnType
    /\ stack[2].k = "mw" /\ stack[2].i = 2 /\ stack[2].pc = "spawned"
    /\ stack[3].k = "mw" /\ stack[3].i = 1 /\ stack[3].act = InnerAction
    /\ stack[4].k = "mw" /\ stack[4].i = 2 /\ stack[4].pc = "next"
    /\ stack[5].k = "base" /\ stack[6].k = "reduce"

\* Control is back in a stage whose call of the middleware API's dispatch
\* returned normally.
ReturnedToIssuer == Running /\ Issuing(Top)

\* The index of the event the issuing stage logged when it called dispatch.
IssueIndex ==
    IF LastIndex("spawn") > LastIndex("caught") THEN LastIndex("spawn") ELSE LastIndex("caught")

\* C13: a dispatch a stage issues through the middleware API's dispatch has
\* replaced the state and notified every listener by the time control returns
\* to the issuing stage, and a commit is always followed by its own round of
\* notifications before any other reducer run, commit or stage event.
C13_NestedCompletes ==
    /\ ReturnedToIssuer =>
          LET c == LastIndex("commit")
          IN /\ IssueIndex > 0
             /\ c > IssueIndex
             /\ Cardinality({n \in IssueIndex..Len(log) : log[n].e = "commit"}) = 1
             /\ Cardinality({n \in IssueIndex..Len(log) : log[n].e = "reduce"}) = 1
             /\ LastIndex("reduce") < c
             /\ state.ref = log[c].i /\ state.subs = log[c].v
             /\ ~isDispatching
             /\ Len(log) >= c + Len(listeners)
             /\ \A m \in 1..Len(listeners) :
                   log[c + m].e = "listener" /\ log[c + m].i = listeners[m] /\ log[c + m].v = log[c].v
    /\ \A n \in 1..Len(log) :
          log[n].e = "commit" =>
              \A m \in 1..Len(listeners) :
                  n + m <= Len(log) => (log[n + m].e = "listener" /\ log[n + m].i = listeners[m])

\* The dispatch the spawn stage issued has changed the state and notified both
\* listeners, and the stage has not yet passed its own action along.
C13_Witness ==
    /\ ReturnedToIssuer
    /\ Top.pc = "spawned"
    /\ Len(listeners) = 2
    /\ state.subs["counter"].val = 1 /\ state.subs["test"].val = 0
    /\ log[Len(log)].e = "exit"

\* C14: after Store.create and before any dispatch, state() has exactly the
\* keys of the reducers mapping, each mapped to that slice configuration's
\* initialState object; no reducer was run and no object was created for it.
C14_InitialState ==
    ndisp = 0 =>
        /\ DOMAIN state.subs = KeySet
        /\ \A k \in KeySet : state.subs[k] = SliceInitial(k)
        /\ stack = <<>> /\ ret = NoRet /\ ~isDispatching
        /\ nextRef = 3
        /\ log # <<>> =>
              /\ log = <<Event("state", 0, Snapshot)>>
              /\ DOMAIN log[1].v = KeySet
              /\ \A k \in KeySet : log[1].v[k] = SliceInitial(k)

\* The application read state() of a store with a listener before it
\* dispatched anything.
C14_Witness ==
    /\ ndisp = 0
    /\ listeners # <<>>
    /\ log # <<>> /\ log[1].e = "state"
    /\ Len(mws) > 0

\* The identifiers "<name>/<handlerName>" createSlice registers for the
\* counter slice of the application.
RegisteredTypes ==
    {"counter/increment", "counter/decrement", "counter/incrementByAmount", "counter/reset",
     "counter/bump", "counter/reenter", "counter/tryReenter", "counter/readState",
     "counter/fail"}

C19_Original ==
    (call.done /\ call.returned # Undefined) => call.value = call.returned

\* No reducer throws for the action.
NonThrowing(act) == \A k \in KeySet : HandlerKind(k, act.type) \notin {"fail", "rawThrow"}

\* The sub-state of key k after folding its reducer over the first n
\* dispatched actions, starting from the slice's initialState.
RECURSIVE FoldSlice(_, _)
FoldSlice(k, n) ==
    IF n = 0 THEN SliceInitial(k) ELSE SliceReducer(k, FoldSlice(k, n - 1), hist[n])

\* What the counter handlers of the tests add to the value.
Delta(act) ==
    CASE act.type = "counter/increment" -> 1
      [] act.type = "counter/decrement" -> 0 - 1
      [] act.type = "counter/incrementByAmount" -> act.payload
      [] OTHER -> 0

RECURSIVE SumDeltas(_)
SumDeltas(n) == IF n = 0 THEN 0 ELSE SumDeltas(n - 1) + Delta(hist[n])

\* C15: without middleware, after any sequence of non-throwing dispatches the
\* value of every key in state() is the fold of that key's reducer over the
\* sequence from its initialState; the counter's value is the sum of the
\* deltas applied, 6 after increment() and incrementByAmount(5).
C15_Fold ==
    (mws = <<>> /\ \A n \in 1..Len(hist) : NonThrowing(hist[n])) =>
        /\ stack = <<>> =>
              /\ exc = NoError
              /\ \A k \in KeySet : state.subs[k].val = FoldSlice(k, Len(hist)).val
              /\ state.subs["counter"].val = SumDeltas(Len(hist))
        /\ \A i \in 1..Len(held) :
              /\ \A k \in KeySet : held[i].subs[k].val = FoldSlice(k, held[i].at).val
              /\ held[i].subs["counter"].val = SumDeltas(held[i].at)
        /\ (stack = <<>> /\ hist = <<Action("counter/increment", 0),
                                      Action("counter/incrementByAmount", 5)>>) =>
              state.subs["counter"].val = 6

\* state() shows 6 after increment() and incrementByAmount(5).
C15_Witness ==
    /\ mws = <<>>
    /\ hist = <<Action("counter/increment", 0), Action("counter/incrementByAmount", 5)>>
    /\ Len(held) = 2
    /\ held[1].at = 1 /\ held[1].subs["counter"].val = 1
    /\ held[2].at = 2 /\ held[2].subs["counter"].val = 6

\* No slice has a handler for the action.
Unmatched(act) == \A k \in KeySet : HandlerKind(k, act.type) = "none"

\* The application took held[i] and held[j] right before and right after one
\* dispatch.
Around(i, j) ==
    /\ i \in 1..Len(held) /\ j \in 1..Len(held)
    /\ held[j].at = held[i].at + 1

\* C16 as stated: the value state() returns after the dispatch of an action no
\* slice handles is the same object state() returned before it.
C16_Original ==
    \A i, j \in 1..Len(held) :
        (Around(i, j) /\ Unmatched(hist[held[j].at])) => held[j].ref = held[i].ref

\* C16, amended: the dispatch of an action no slice handles leaves the store's
\* own state object and every sub-state state() shows reference-equal to what
\* they were before; the object state() returns is a new shallow copy at every
\* call and is never the object an earlier call returned.
C16_Unmatched ==
    /\ \A i, j \in 1..Len(held) :
          (Around(i, j) /\ Unmatched(hist[held[j].at])) =>
              /\ held[j].root = held[i].root
              /\ \A k \in KeySet : held[j].subs[k] = held[i].subs[k]
    /\ \A i, j \in 1..Len(held) :
          i # j => (held[i].ref # held[j].ref /\ held[i].ref # held[j].root)
    /\ \A i \in 1..Len(held) : held[i].ref # state.ref

\* After a dispatch that changed the counter, the application read state()
\* before and after the dispatch of an unknown action.
C16_Witness ==
    /\ stack = <<>>
    /\ Len(held) = 2
    /\ Around(1, 2)
    /\ hist[held[2].at].type = "UNKNOWN"
    /\ held[1].subs["counter"].val = 1
    /\ held[2].subs = held[1].subs

\* C17: after the dispatch of an action that only slice A handles, state().B
\* is the same object as before for every other slice B; the root reducer
\* takes over the very object an unconcerned slice reducer returned.
C17_OtherSlices ==
    /\ \A i, j \in 1..Len(held) :
          Around(i, j) =>
              LET a == hist[held[j].at]
              IN \A A, B \in KeySet :
                    (HandlerKind(A, a.type) # "none" /\ HandlerKind(B, a.type) = "none") =>
                        held[j].subs[B] = held[i].subs[B]
    /\ \A n \in 1..Len(stack) :
          stack[n].k = "reduce" =>
              \A m \in 1..(stack[n].i - 1) :
                  HandlerKind(SliceKeys[m], stack[n].act.type) = "none" =>
                      stack[n].acc[SliceKeys[m]] = state.subs[SliceKeys[m]]

\* The counter was incremented and then the raw reducer's action dispatched:
\* state().test is a new object and state().counter the one from before.
C17_Witness ==
    /\ stack = <<>>
    /\ Len(held) = 2
    /\ Around(1, 2)
    /\ hist[held[2].at].type = "INCREMENT"
    /\ held[1].subs["counter"].val = 1
    /\ held[2].subs["counter"] = held[1].subs["counter"]
    /\ held[2].subs["test"].ref # held[1].subs["test"].ref

\* The keys whose slice reducer has returned in the reducer run of frame f.
Reduced(f) == {SliceKeys[m] : m \in 1..(f.i - 1)}

\* No object that existed before a dispatch is changed by it.  An object is
\* its identity: were one mutated, two values would be seen under one ref, in
\* what a slice reducer returned and the state it was given, or in a snapshot
\* the application kept and the store's state.
NoMutation ==
    /\ \A n \in 1..Len(stack) :
          stack[n].k = "reduce" =>
              \A k \in Reduced(stack[n]) :
                  stack[n].acc[k].ref = state.subs[k].ref => stack[n].acc[k].val = state.subs[k].val
    /\ \A i \in 1..Len(held) : \A k \in KeySet :
          /\ held[i].subs[k].ref = state.subs[k].ref => held[i].subs[k].val = state.subs[k].val
          /\ \A j \in 1..Len(held) :
                held[i].subs[k].ref = held[j].subs[k].ref => held[i].subs[k].val = held[j].subs[k].val
    /\ \A i \in 1..Len(held) : DOMAIN held[i].subs = KeySet

\* C20 as stated: the object given to a slice reducer is unchanged after a
\* handled action, a snapshot taken earlier shows the values it had, and the
\* result of a handled action is always a distinct object.
C20_Original ==
    /\ NoMutation
    /\ \A n \in 1..Len(stack) :
          stack[n].k = "reduce" =>
              \A k \in Reduced(stack[n]) :
                  HandlerKind(k, stack[n].act.type) # "none" =>
                      stack[n].acc[k].ref # state.subs[k].ref

\* C20, amended: the object given to a slice reducer is unchanged after a
\* handled action and a snapshot taken earlier shows the values it had; the
\* result of the counter slice's reducer is a distinct object exactly when the
\* handler changed the draft, and the object it was given when the handler
\* left the draft as it was.
C20_Immutable ==
    /\ NoMutation
    /\ \A n \in 1..Len(stack) :
          (stack[n].k = "reduce" /\ "counter" \in Reduced(stack[n])) =>
              (stack[n].acc["counter"].ref # state.subs["counter"].ref
                  <=> stack[n].acc["counter"].val # state.subs["counter"].val)

\* A snapshot taken before two dispatches that changed the counter still shows
\* the initial value.
C20_Witness ==
    /\ stack = <<>>
    /\ Len(hist) = 2
    /\ Len(held) > 0 /\ held[1].at = 0
    /\ held[1].subs["counter"] = SliceInitial("counter")
    /\ state.subs["counter"].val = 6

\* The value of key k after folding its reducer over acts from the slice's
\* initialState; an action some reducer throws for leaves the state as it was.
RECURSIVE FoldActions(_, _)
FoldActions(k, acts) ==
    IF acts = <<>> THEN SliceInitial(k).val
    ELSE LET before == FoldActions(k, SubSeq(acts, 1, Len(acts) - 1))
             act == acts[Len(acts)]
         IN IF Throws(act) THEN before ELSE SliceReducer(k, Obj(0, before), act).val

\* C21: two stores created from the same slice configurations share no state:
\* whatever the interleaving of dispatches, the state of each store is the fold
\* over the actions dispatched to that store alone, and a dispatch to one
\* store invokes only the listeners registered with that store.
C21_Independent ==
    /\ \A s \in StoreIds :
          /\ \A k \in KeySet : stores[s].state.subs[k].val = FoldActions(k, stores[s].hist)
          /\ \A n \in 1..Len(stores[s].calls) : stores[s].calls[n].reg = s
          /\ \A n \in 1..Len(stores[s].listeners) : stores[s].listeners[n].reg = s
          /\ ~stores[s].flag
    /\ stores[1].state.ref # stores[2].state.ref

\* Store 1 was dispatched an increment and store 2 an action of the raw
\* reducer; both have a listener, and the one of store 1 was invoked.
C21_Witness ==
    /\ stores[1].state.subs["counter"].val = 1 /\ stores[1].state.subs["test"].val = 0
    /\ stores[2].state.subs["counter"].val = 0 /\ stores[2].state.subs["test"].val = 1
    /\ stores[1].listeners # <<>> /\ stores[2].listeners # <<>>
    /\ stores[1].calls # <<>>

Forwarding == \A n \in 1..Len(mws) : mws[n] \notin {"stop", "before"}

\* The rejections logged between events n and m.
RejectsBetween(n, m) == {r \in (n + 1)..(m - 1) : log[r].e = "reject"}

ReadsAfterNext ==
    /\ Running
    /\ Top.k = "mw" /\ Top.pc = "next" /\ mws[Top.i] \in {"logger", "before"}

\* The index of the last commit logged before event n, 0 when there is none.
CommitBefore(n) ==
    LET S == {m \in 1..(n - 1) : log[m].e = "commit"}
    IN IF S = {} THEN 0 ELSE CHOOSE m \in S : \A o \in S : o <= m

\* C23: in a top-level dispatch, one that no reducer run encloses, a stage that
\* calls store.state() after next(action) returned finds the flag cleared, so
\* the read raises no error, and what it reads is the state that the dispatch
\* committed: the flag is set in the base-dispatch frame only.
C23_ReadAfterNext ==
    /\ (ReadsAfterNext /\ Reducing = {}) =>
          /\ ~StateGuard
          /\ LET m == CommitBefore(Len(log) + 1)
             IN m > 0 => Snapshot = log[m].v
    /\ \A n \in 1..Len(log) :
          (log[n].e \in {"exit", "after"} /\ mws[log[n].i] \in {"logger", "before"}) =>
              /\ CommitBefore(n) > 0 => log[n].v = log[CommitBefore(n)].v
              /\ n = Len(log) => exc = NoError

\* The logging stage of a one-stage pipeline read, after next returned, the
\* counter that the dispatch had just incremented.
C23_Witness ==
    /\ stack = <<>>
    /\ mws = <<"logger">>
    /\ exc = NoError
    /\ Len(log) = 4
    /\ log[3].e = "commit"
    /\ log[4].e = "exit" /\ log[4].v = log[3].v /\ log[4].v # log[2].v
    /\ log[4].v = state.subs

\* C24 as stated: a stage that calls store.state() after next(action), while
\* the dispatch call it serves has not returned, fails; no such read ever
\* delivers a state.
C24_Original ==
    \A n \in 1..Len(log) :
        ~(log[n].e \in {"exit", "after"} /\ mws[log[n].i] \in {"logger", "before"})

C24_Step ==
    ReadsAfterNext =>
        /\ exc' = IF Reducing # {} THEN StateError ELSE NoError
        /\ state' = state
        /\ isDispatching' = isDispatching

\* C24, amended: a stage that calls store.state() after next(action) returned
\* fails, with the error of every state() read made during dispatch, exactly
\* when the dispatch it serves was invoked from a reducer that has not
\* returned; in a dispatch that no reducer run encloses the read succeeds.
C24_FailsUnderReducer == [][C24_Step]_vars

\* A handler's dispatch passed the logging stage and was dropped by the next
\* stage; the logging stage's read after next raised the state-read error in
\* the handler.
C24_Witness ==
    /\ mws = <<"logger", "stop">>
    /\ exc = StateError
    /\ isDispatching
    /\ stack # <<>> /\ Top.k = "handler"
    /\ log[Len(log)].e = "stopped"

\* The action that the stage of frame f passes to next.
Forwarded(f) == IF mws[f.i] = "modify" THEN Rewritten(f.act) ELSE f.act

\* C25: the action of base-dispatch and of the root reducer is the action that
\* the innermost stage passed to next.  A stage that passes a copy with the
\* type replaced by INCREMENT makes the reducer handle INCREMENT: behind such a
\* stage a dispatch of any type adds one to the count of the test slice and
\* leaves the counter slice alone.
C25_ForwardedAction ==
    /\ \A n \in 2..Len(stack) :
          /\ (stack[n].k = "base" /\ stack[n - 1].k = "mw" /\ stack[n - 1].pc \in {"next", "try"}) =>
                /\ stack[n - 1].i = Len(mws)
                /\ stack[n].act = Forwarded(stack[n - 1])
          /\ (stack[n].k = "reduce" /\ stack[n - 1].k = "base") => stack[n].act = stack[n - 1].act
    /\ (mws = <<"modify">> /\ log # <<>> /\ log[Len(log)].e = "commit") =>
          /\ Len(log) = 2 /\ log[1].e = "reduce"
          /\ log[2].v["test"].val = log[1].v["test"].val + 1
          /\ log[2].v["counter"] = log[1].v["counter"]
          /\ state.subs = log[2].v

\* An action of unknown type went through the rewriting stage and the
\* dispatch committed a count of one.
C25_Witness ==
    /\ mws = <<"modify">>
    /\ Len(stack) = 1 /\ Top.k = "mw" /\ Top.act.type = "UNKNOWN"
    /\ log # <<>> /\ log[Len(log)].e = "commit"
    /\ state.subs["test"].val = 1
    /\ state.subs["counter"].val = 0

\* C26 as stated: the slice reducer of a slice whose extraReducers builder
\* registered a case for an external action type applies that case's handler
\* to the sub-state when it is given an action of that type.
C26_Original ==
    (call.done /\ call.exc = NoError /\ ExtraKind(call.key, call.act.type) = "inc") =>
        call.value.val = DefaultState(call.key, call.given).val + 1

\* The type that the claim gives the creator of a call: the type passed to
\* createAction, the entry of the map given to createActions, and the slice's
\* name, a slash and the key, spelled out for the slices of the model.
SpelledType(u) ==
    CASE u.via \in {"createAction", "createActionWithType"} -> u.type
      [] u.via = "createActions" ->
           (CASE u.key = "add" -> "todo/add"
              [] u.key = "remove" -> "todo/remove"
              [] u.key = "toggle" -> "todo/toggle")
      [] u.via = "createSlice" ->
           (CASE u.name = "counter" /\ u.key = "increment" -> "counter/increment"
              [] u.name = "counter" /\ u.key = "incrementByAmount" -> "counter/incrementByAmount"
              [] u.name = "todos" /\ u.key = "increment" -> "todos/increment"
              [] u.name = "todos" /\ u.key = "incrementByAmount" -> "todos/incrementByAmount")

\* C27: every generated action creator builds { type, payload } with its
\* fixed type and the payload it was given: the slice's name, a slash and the
\* key for slice.actions[key], the given type for createAction, the map's
\* entry for createActions; called without an argument it gives the payload
\* undefined.
C27_Creators ==
    (util.op = "create" /\ util.done) =>
        /\ util.made.type = SpelledType(util)
        /\ util.args # <<>> => util.made.payload = util.args[1]
        /\ util.args = <<>> => util.made.payload = UndefinedValue
        /\ DOMAIN util.made = {"type", "payload"}

\* slice.actions.incrementByAmount of the counter slice was called with 5.
C27_Witness ==
    /\ util.op = "create" /\ util.done
    /\ util.via = "createSlice"
    /\ util.made = [type |-> "counter/incrementByAmount", payload |-> NumberValue(5)]

\* C28: isActionOf(c)(a) is true exactly when the type of a is the type that
\* c produces, whatever the payload of a.
C28_IsActionOf ==
    (util.op = "isActionOf" /\ util.done) =>
        (util.is <=> util.act.type = SpelledType(util))

\* The guard of a creator accepted an action of its type that carries a
\* payload.
C28_Witness ==
    /\ util.op = "isActionOf" /\ util.done
    /\ util.is
    /\ util.act.payload = NumberValue(5)
    /\ util.via = "createActions"

\* f1(f2(... fn(x))) for the functions named in funcs.
RECURSIVE Nested(_, _)
Nested(funcs, x) == IF funcs = <<>> THEN x ELSE Prim(Head(funcs), Nested(Tail(funcs), x))

\* C29: compose of no function is the identity, compose of one function is
\* that function, and compose(f1, ..., fn)(x) is f1(f2(... fn(x))): the
\* rightmost function is applied first, so compose(double, add1)(3) is 8.
C29_Compose ==
    (util.op = "compose" /\ util.done) =>
        /\ util.res = Nested(util.funcs, util.x)
        /\ util.funcs = <<>> => (util.composed = Identity /\ util.res = util.x)
        /\ Len(util.funcs) = 1 => util.composed = Given(util.funcs[1])
        /\ (util.funcs = <<"double", "add1">> /\ util.x = 3) => util.res = 8

\* compose(double, add1) was applied to 3.
C29_Witness ==
    /\ util.op = "compose" /\ util.done
    /\ util.funcs = <<"double", "add1">>
    /\ util.x = 3
    /\ util.res = 8

\* The list of the documentation's example: errorMiddleware (which logs and
\* throws again), timingMiddleware and loggerMiddleware.
ExampleList == <<"guard", "timing", "logger">>

\* The stage events and reducer runs of the log, as pairs of event and stage.
RECURSIVE StageEvents(_)
StageEvents(l) ==
    IF l = <<>> THEN <<>>
    ELSE (IF Head(l).e \in {"try", "enter", "exit", "rethrown"} THEN <<<<Head(l).e, Head(l).i>>>>
          ELSE IF Head(l).e = "reduce" THEN <<<<"base-dispatch", 0>>>>
          ELSE <<>>) \o StageEvents(Tail(l))

RootReturned == Running /\ Top.k = "base" /\ Top.pc = "reducing" /\ ret # NoRet

\* The value of the sub-state that the slice reducer of key k returns for the
\* action of the dispatch: a handler that calls dispatch has added one to its
\* draft.
NextValue(k, act) ==
    IF HandlerKind(k, act.type) \in {"reenter", "tryReenter"}
    THEN state.subs[k].val + 1
    ELSE SliceReducer(k, state.subs[k], act).val

\* C31: the root reducer returns the very state object it was given when
\* every slice reducer returned the object state[key], and a new object that
\* holds every slice's next sub-state as soon as one slice reducer returned
\* another object.
C31_RootIdentity ==
    RootReturned =>
        /\ DOMAIN ret.subs = KeySet
        /\ \A k \in KeySet : ret.subs[k].val = NextValue(k, Top.act)
        /\ IF \A k \in KeySet : ret.subs[k].ref = state.subs[k].ref
           THEN ret = state
           ELSE /\ ret.ref # state.ref
                /\ ret.ref = nextRef
                /\ \A k \in KeySet : ret.ref # ret.subs[k].ref /\ ret.ref # state.subs[k].ref

\* The root reducer returned a new object in which the counter slice's
\* sub-state is new and the test slice's is the object it was.
C31_Witness ==
    /\ RootReturned
    /\ ret.ref # state.ref
    /\ ret.subs["counter"].ref # state.subs["counter"].ref
    /\ ret.subs["test"] = state.subs["test"]

\* The store's two states.
Idle == ~isDispatching
Dispatching == isDispatching

\* The top frame is base-dispatch waiting for the root reducer it called, or
\* holding the exception the reducer threw.
AtBaseReducing == stack # <<>> /\ Top.k = "base" /\ Top.pc = "reducing"

C32_Transitions ==
    /\ (Idle /\ Dispatching') => (AtBaseEntry /\ Reducing' # {})
    /\ (Dispatching /\ Idle') => (AtBaseReducing /\ Reducing' = {})
    /\ (AtBaseEntry /\ Idle) => Dispatching'
    /\ (stack = <<>> /\ stack' # <<>>) => (Idle /\ Idle')

\* C32: the store is Idle or Dispatching.  It becomes Dispatching only by
\* base-dispatch entered while Idle, and is Dispatching exactly as long as one
\* base-dispatch waits for its reducer; base-dispatch makes it Idle again when
\* the reducer returns or throws, so every dispatch call that returns or throws
\* to the application leaves it Idle, and an accepted dispatch starts at once:
\* nothing is queued.
C32_StateMachine ==
    /\ [](isDispatching \in BOOLEAN)
    /\ [](Dispatching <=> Cardinality(Reducing) = 1)
    /\ [](Idle <=> Reducing = {})
    /\ [](stack = <<>> => Idle)
    /\ [][C32_Transitions]_vars

\* A dispatch whose reducer threw has returned to the application and the
\* store is Idle.
C32_Witness ==
    /\ stack = <<>>
    /\ exc = HandlerError
    /\ HasEvent("reduce")
    /\ Idle

\* A step of the application's state(), registerListener or unregister call:
\* the call stack is empty before and after it.
ApplicationCall == stack = <<>> /\ stack' = <<>>

C33_Frame ==
    /\ state' # state =>
          /\ Running /\ AtBaseReducing
          /\ isDispatching
          /\ ret # NoRet /\ state' = ret
    /\ ApplicationCall => state' = state
    /\ (stack # <<>> /\ Top.k \in {"mw", "handler", "reduce"}) => state' = state
    /\ (stack # <<>> /\ Top.k = "base" /\ Top.pc \in {"enter", "notify"}) => state' = state
    /\ (stack # <<>> /\ exc # NoError) => state' = state

\* C33: the state reference is replaced only by base-dispatch, with what the
\* root reducer returned, in a step taken while the flag is set; state(),
\* registerListener, an unregister capability, the code of middleware stages,
\* the reducers themselves and the notification of listeners leave it as it is.
C33_OnlyBaseReplaces == [][C33_Frame]_vars

\* Base-dispatch has replaced the state and is about to notify the first
\* listener.
C33_Witness ==
    /\ Running /\ Top.k = "base" /\ Top.pc = "notify" /\ Top.i = 1
    /\ listeners # <<>>
    /\ HasEvent("reduce")
    /\ log[Len(log)].e = "commit"
    /\ log[LastIndex("reduce")].i # state.ref
    /\ state.ref = log[Len(log)].i

\* The frame that calling the function value fn with act pushes.
FrameOf(fn, act) == IF fn.k = "handler" THEN MwFrame(fn.i, act) ELSE BaseFrame(act)

\* The handler that the chain-link function of stage i returned.
RECURSIVE HandlerOf(_, _)
HandlerOf(fn, i) == IF fn.i = i THEN fn ELSE HandlerOf(fn.next, i)

\* The calls of setup functions and of chain-link functions among calls.
SetupCalls == SelectSeq(built.calls, LAMBDA c : c.e = "setup")
LinkCalls == SelectSeq(built.calls, LAMBDA c : c.e = "link")

\* C34: the constructor calls each middleware's setup function once, in list
\* order, and each stage's chain-link function once, with the handler of the
\* following stage, or base-dispatch for the last stage, as next.  No dispatch
\* calls either again, so the next of a stage is at every later call what it
\* was bound to.
C34_BoundOnce ==
    built.done =>
        LET n == Len(mws)
        IN /\ Len(built.calls) = 2 * n
           /\ SetupCalls = SubSeq(built.calls, 1, Len(SetupCalls))
           /\ Len(SetupCalls) = n /\ Len(LinkCalls) = n
           /\ \A i \in 1..n : SetupCalls[i].i = i
           /\ \A i \in 1..n : \E j \in 1..n : LinkCalls[j].i = i
           /\ \A j \in 1..n :
                 LET i == LinkCalls[j].i
                 IN /\ LinkCalls[j].v.k = (IF i < n THEN "handler" ELSE "base")
                    /\ i < n => LinkCalls[j].v.i = i + 1
                    /\ HandlerOf(built.dispatch, i).next = LinkCalls[j].v
           /\ \A act \in Actions :
                 /\ FrameOf(built.dispatch, act) = DispatchTarget(act)
                 /\ \A i \in 1..n : FrameOf(HandlerOf(built.dispatch, i).next, act) = NextOf(i, act)
           /\ \A m \in 1..(Len(stack) - 1) :
                 (stack[m].k = "mw" /\ stack[m].pc \in {"next", "try"}) =>
                     LET bound == HandlerOf(built.dispatch, stack[m].i).next
                     IN /\ stack[m + 1].k = (IF bound.k = "handler" THEN "mw" ELSE "base")
                        /\ bound.k = "handler" => stack[m + 1].i = bound.i

\* A store built with three stages has completed a dispatch.
C34_Witness ==
    /\ built.done
    /\ Len(mws) = 3
    /\ Len(built.calls) = 6
    /\ stack = <<>> /\ HasEvent("commit")
    /\ ndisp = 1

\* C35: the top-level keys of the root state are at all times the keys of the
\* reducers mapping given to Store.create: no dispatch adds or drops a key,
\* whether the root reducer returns the state it was given or a new object.
C35_KeySet ==
    /\ DOMAIN state.subs = KeySet
    /\ ret # NoRet => DOMAIN ret.subs = KeySet
    /\ \A n \in 1..Len(stack) :
          stack[n].k = "reduce" => DOMAIN stack[n].acc = {SliceKeys[m] : m \in 1..(stack[n].i - 1)}
    /\ \A n \in 1..Len(log) : log[n].e \in {"commit", "listener", "state"} => DOMAIN log[n].v = KeySet

\* Two dispatches have each replaced the root state with a new object, the
\* second changing the test slice only.
C35_Witness ==
    /\ stack = <<>>
    /\ ndisp = 2
    /\ state.ref > 4
    /\ state.subs["counter"].ref # SliceInitial("counter").ref
    /\ state.subs["test"].ref # SliceInitial("test").ref
    /\ HasEvent("commit")
    /\ log[LastIndex("commit")].v["counter"] = log[LastIndex("reduce")].v["counter"]

\* The calls of hist that concern callback l, and the last of them.
CallsOf(l) == {n \in 1..Len(hist) : hist[n].l = l}
LastCallOf(l) == CHOOSE n \in CallsOf(l) : \A m \in CallsOf(l) : m <= n

\* The registerListener call that put callback l where it is in the set: the
\* first registration after the last removal.
RECURSIVE PlacedAt(_, _)
PlacedAt(l, n) ==
    IF n > 1 /\ \E m \in 1..(n - 1) : hist[m].l = l
    THEN LET p == CHOOSE m \in 1..(n - 1) : hist[m].l = l /\ \A o \in (m + 1)..(n - 1) : hist[o].l # l
         IN IF hist[p].op = "register" THEN PlacedAt(l, p) ELSE n
    ELSE n

\* C36: the registry is a set of callbacks.  A callback is registered exactly
\* when the last call about it was a registerListener call; registering it
\* again leaves it once in the set, at the position of its first registration
\* since it was last removed; every capability ever returned for it removes
\* it, a stale one from before a re-registration included, and a capability
\* invoked for a callback that is not registered changes nothing.  A dispatch
\* invokes each registered callback once, in that order.
C36_RegistrySet ==
    /\ \A a, b \in 1..Len(listeners) : a # b => listeners[a] # listeners[b]
    /\ \A l \in ListenerIds :
          (\E n \in 1..Len(listeners) : listeners[n] = l)
              <=> (CallsOf(l) # {} /\ hist[LastCallOf(l)].op = "register")
    /\ \A a, b \in 1..Len(listeners) :
          a < b => PlacedAt(listeners[a], LastCallOf(listeners[a]))
                       < PlacedAt(listeners[b], LastCallOf(listeners[b]))
    /\ Notifying =>
          /\ Len(Round) = Top.i - 1
          /\ \A m \in 1..Len(Round) : Round[m].i = listeners[m]

\* A stale capability did its work: the callback was registered, removed and
\* registered again, and then the capability of the first registration was
\* invoked; the dispatch after that notified nobody.
C36_Witness ==
    /\ Len(hist) = 4
    /\ hist[1].op = "register" /\ hist[2].op = "unregister" /\ hist[3].op = "register"
    /\ hist[4].op = "unregister" /\ hist[4].cap = 1
    /\ hist[1].l = hist[3].l
    /\ listeners = <<>>
    /\ stack = <<>> /\ HasEvent("commit") /\ ~HasEvent("listener")

\* The position of callback l in the registry, 0 when it is not registered.
PositionOf(l) ==
    IF \E n \in 1..Len(listeners) : listeners[n] = l
    THEN CHOOSE n \in 1..Len(listeners) : listeners[n] = l
    ELSE 0

\* C37: when a listener throws during notification, its exception is the one
\* in flight until it reaches the caller of dispatch and nothing catches it;
\* the listeners before it were invoked in order and none after it is
\* invoked; the store holds the state the reducer returned; the flag is
\* false, and no dispatch of the application is ever rejected, one made after
\* the throw included.
C37_ListenerThrows ==
    /\ HasEvent("threw") =>
          /\ exc = ListenerError
          /\ log[Len(log)].e = "threw"
          /\ ~isDispatching
          /\ LastIndex("commit") > 0
          /\ state.ref = log[LastIndex("commit")].i
          /\ state.subs = log[LastIndex("commit")].v
          /\ Len(Round) = PositionOf(Thrower)
          /\ \A m \in 1..Len(Round) :
                /\ Round[m].i = listeners[m]
                /\ m < Len(Round) => Round[m].e = "listener" /\ Round[m].v = state.subs
    /\ exc = ListenerError => HasEvent("threw")
    /\ ~HasEvent("reject")
    /\ (stack # <<>> /\ Top.k = "base" /\ Top.pc = "enter") => ~isDispatching

\* Two dispatches were made with a throwing listener between two others: the
\* second one committed, the first listener saw its state, the exception is
\* with the caller and the third listener was not invoked.
C37_Witness ==
    /\ stack = <<>> /\ exc = ListenerError
    /\ ndisp = 2
    /\ listeners = <<1, Thrower, Dispatcher>>
    /\ Len(Round) = 2
    /\ Round[1].e = "listener" /\ Round[1].v = state.subs
    /\ state.subs["counter"].val > 0
    /\ ~isDispatching

\* The commits of the application's current dispatch call.
Commits == {n \in 1..Len(log) : log[n].e = "commit"}

\* How often callback l was invoked during the current dispatch call.
Invocations(l) == Cardinality({n \in 1..Len(log) : log[n].e = "listener" /\ log[n].i = l})

\* C38: a dispatch made by a listener is not rejected.  It commits and runs
\* its whole notification round before the outer round goes on: after the
\* nested commit the log holds the nested round over every listener in order
\* and only then the outer round's remaining listeners, each of which reads
\* the nested dispatch's state; and when the dispatch call returns, every
\* listener was invoked once for each base-dispatch that committed.
C38_ListenerDispatch ==
    /\ (stack # <<>> /\ Top.k = "base" /\ Top.pc = "enter") => ~DispatchGuard
    /\ Cardinality(Commits) <= 2
    /\ Cardinality(Commits) = 2 =>
          LET c1 == CHOOSE n \in Commits : \A m \in Commits : n <= m
              c2 == CHOOSE n \in Commits : \A m \in Commits : m <= n
              p == c2 - c1 - 2
              after == [m \in 1..(Len(log) - c2) |-> log[c2 + m]]
              rest == [m \in 1..(Len(listeners) - p) |-> listeners[p + m]]
              expected == listeners \o rest
          IN /\ p >= 1 /\ p <= Len(listeners)
             /\ p <= Len(listeners) => listeners[p] = Dispatcher
             /\ log[c2 - 1].e = "reduce"
             /\ \A m \in 1..p :
                   /\ log[c1 + m].e = "listener"
                   /\ p <= Len(listeners) => log[c1 + m].i = listeners[m]
                   /\ log[c1 + m].v = log[c1].v
             /\ log[c2].v # log[c1].v
             /\ Len(after) <= Len(expected)
             /\ \A m \in 1..Len(after) :
                   /\ m <= Len(expected) => after[m].i = expected[m]
                   /\ after[m].e = "listener" => after[m].v = log[c2].v
             /\ (stack = <<>> /\ exc = NoError) => Len(after) = Len(expected)
    /\ (stack = <<>> /\ exc = NoError /\ HasEvent("reduce")) =>
          \A n \in 1..Len(listeners) : Invocations(listeners[n]) = Cardinality(Commits)

\* The dispatching listener came first and a reading listener second: the
\* dispatch call returned after two commits, and the reading listener was
\* invoked twice, both times seeing the state of the nested dispatch.
C38_Witness ==
    /\ stack = <<>> /\ exc = NoError
    /\ listeners = <<Dispatcher, 1>>
    /\ Cardinality(Commits) = 2
    /\ Invocations(1) = 2
    /\ \A n \in 1..Len(log) : (log[n].e = "listener" /\ log[n].i = 1) => log[n].v = state.subs
    /\ log[Len(log)].i = 1

\* C39: a store whose stages only pass the action along and a store without
\* middleware, given the same sequence of dispatch, state, registerListener
\* and unregister calls, show the same after every call: the same state, the
\* same listeners, the same error, and the same reducer runs, commits,
\* rejections and listener invocations with the states they read.
C39_PassThrough ==
    (Replaying /\ stack = <<>>) => Observation = hist[Replayed + 1].obs

\* Both stores were given a registration of the dispatching listener and then
\* a dispatch whose handler dispatches, and a dispatch that commits and is
\* followed by the listener's own dispatch; the second store has answered all
\* calls and shows what the first showed.
C39_Witness ==
    /\ Replaying /\ stack = <<>>
    /\ Created = 4 /\ Replayed = 3
    /\ hist[1].call.op = "register" /\ hist[1].call.arg = Dispatcher
    /\ hist[2].call.op = "dispatch" /\ hist[2].call.arg.type = "counter/reenter"
    /\ hist[3].obs.exc = ReentrancyError
    /\ hist[3].call.op = "dispatch" /\ hist[3].call.arg.type = "counter/increment"
    /\ hist[4].obs.state.subs["counter"].val = 2
    /\ Observation = hist[4].obs
    /\ mws = <<>>

\* The frame j places below the top of the stack.
Below(j) == stack[Len(stack) - j]

\* The event a stage logs before it calls next, if it logs one.
PreNextLogged(i) ==
    CASE mws[i] \in {"logger", "timing"} -> Event("enter", i, NoSnap) \in {log[n] : n \in 1..Len(log)}
      [] mws[i] = "guard" -> Event("try", i, NoSnap) \in {log[n] : n \in 1..Len(log)}
      [] mws[i] = "before" -> \E n \in 1..Len(log) : log[n].e = "before" /\ log[n].i = i
      [] OTHER -> TRUE

\* The step that rejects a dispatch at the guard.
C40_Rejection ==
    (AtBaseEntry /\ DispatchGuard) =>
        /\ isDispatching'
        /\ state'.ref = state.ref
        /\ listeners' = listeners
        /\ Len(log') = Len(log) + 1 /\ log'[Len(log')].e # "listener"
        /\ Len(stack) > Len(mws)
        /\ \A j \in 1..Len(mws) :
              /\ Below(j).k = "mw"
              /\ Below(j).i = Len(mws) + 1 - j
              /\ Below(j).pc \in {"next", "try"}
              /\ PreNextLogged(Below(j).i)
              /\ Below(j - 1).act =
                    IF mws[Below(j).i] = "modify" THEN Rewritten(Below(j).act) ELSE Below(j).act

\* C40: a dispatch rejected by the guard leaves the flag set, the state
\* object in place and the listeners alone, and logs no listener invocation;
\* the flag stays set for as long as a root-reducer run is in progress,
\* rejections in between included; and when the store has middleware, every
\* stage is on the call stack inside its call of next for the rejected
\* action, its code before that call done, when the guard rejects.
C40_RejectedUntouched ==
    /\ [](ReducerRuns # {} => isDispatching)
    /\ [][C40_Rejection]_vars

\* The guard has just rejected a handler's dispatch that two logger stages
\* passed along: both stages logged its arrival after the handler issued it,
\* the last one is waiting in next, and the outer reducer is still protected.
C40_Witness ==
    /\ mws = <<"logger", "logger">>
    /\ exc = ReentrancyError
    /\ log # <<>> /\ log[Len(log)].e = "reject"
    /\ HasEvent("innerDispatch")
    /\ Len(log) >= 3
    /\ log[Len(log) - 2] = Event("enter", 1, NoSnap)
    /\ log[Len(log) - 1] = Event("enter", 2, NoSnap)
    /\ stack # <<>> /\ Top.k = "mw" /\ Top.i = 2 /\ Top.pc = "next"
    /\ isDispatching
    /\ ReducerRuns # {}

====
